---- MODULE Spec2Model ----
(***************************************************************************)
(* iconDrawer: the directory watcher, its debounce timers and the file     *)
(* cache (modules/data_manager.py), and the icon resolution pipeline       *)
(* (modules/icon_loader.py, modules/icon_dispatcher.py).                   *)
(*                                                                         *)
(* Strings that the code inspects character by character (paths) are       *)
(* sequences of one-character strings.  An optional value is a sequence of *)
(* length 0 (None) or 1 (the value).                                       *)
(***************************************************************************)
EXTENDS Integers, Sequences, FiniteSets, TLC

VARIABLES
    _drawers_data,       \* AppController._drawers_data: the paths of the configured drawers
    platform,            \* sys.platform: "posix" or "win32"
    fs,                  \* the file system: directory path -> [is_dir, children]
    observer,            \* DrawerWatchdogManager.observer thread: "new", "alive", "stopped"
    handlers,            \* observer: watched directory -> number of handlers scheduled on it
    event_queue,         \* observer.event_queue: raw events waiting for the watcher thread
    monitored_paths,     \* DrawerWatchdogManager.monitored_paths
    timers,              \* the QTimer objects created by _processRefreshRequest
    _pending_refreshes,  \* DrawerWatchdogManager._pending_refreshes: root -> timer
    posted,              \* queued _scheduleRefreshRequested emissions waiting for the main loop
    main,                \* what the main (GUI) thread is executing
    _file_cache,         \* DataManager._file_cache
    wd_signal,           \* DrawerWatchdogManager.directoryChanged emitted by the last step
    dm_signal,           \* DataManager.directoryChanged emitted by the last step
    burst,               \* history: the requests (up to BurstCap) behind wd_signal
    sinceReq,            \* history: time since _processRefreshRequest last ran for a root
    reloaded,            \* history: the keys reload_drawer_content has been executed for
    stopped,             \* history: stop() has returned and start() was not called since
    handled,             \* history: the last _handle_event call
    result,              \* the DataManager call that returned in the last step
    icon,                \* the icon pipeline: the last get_icon_for_path call
    view,                \* the content widget, and the list a caller of DataManager keeps
    ctl                  \* AppController: the lock, the list view and the saved settings

vars == <<_drawers_data, platform, fs, observer, handlers, event_queue, monitored_paths, timers,
          _pending_refreshes, posted, main, _file_cache, wd_signal, dm_signal, burst,
          sinceReq, reloaded, stopped, handled, result, icon, view, ctl>>

---------------------------------------------------------------------------
(* Optional values.                                                        *)
None == << >>
Some(v) == <<v>>

---------------------------------------------------------------------------
(* Paths.                                                                  *)

\* os.sep.  On win32 normpath turns "/" into the separator; the model writes
\* every separator as SEP.
SEP == "/"

\* the path strings and the file names of the bounded universe
P_ab == <<"/", "a", "/", "b">>
P_abb == <<"/", "a", "/", "b", "b">>
P_ab_slash == <<"/", "a", "/", "b", "/">>
P_root == <<"/">>
X == <<"x">>
Y == <<"y">>

\* str.startswith
StartsWith(s, prefix) ==
    /\ Len(prefix) <= Len(s)
    /\ SubSeq(s, 1, Len(prefix)) = prefix

\* str.split(os.sep), computed
RECURSIVE SplitOf(_)
SplitOf(s) ==
    IF \A i \in DOMAIN s : s[i] # SEP
    THEN <<s>>
    ELSE LET k == CHOOSE i \in DOMAIN s :
                      s[i] = SEP /\ \A j \in 1..(i - 1) : s[j] # SEP
         IN <<SubSeq(s, 1, k - 1)>> \o SplitOf(SubSeq(s, k + 1, Len(s)))

\* the path strings whose components and normal form are computed once
PathStrings ==
    {<< >>, P_ab, P_abb, P_ab_slash, P_root}
    \cup {d \o <<SEP>> \o n : d \in {P_ab, P_abb}, n \in {X, Y}}

SplitTable == {<<p, SplitOf(p)>> : p \in PathStrings}

\* str.split(os.sep)
Split(s) ==
    IF \E e \in SplitTable : e[1] = s
    THEN (CHOOSE e \in SplitTable : e[1] = s)[2]
    ELSE SplitOf(s)

\* os.sep.join(comps)
RECURSIVE Join(_)
Join(comps) ==
    IF comps = << >> THEN << >>
    ELSE IF Len(comps) = 1 THEN comps[1]
    ELSE comps[1] \o <<SEP>> \o Join(Tail(comps))

DOTDOT == <<".", ".">>

\* the loop of os.path.normpath over the components
RECURSIVE NormComps(_, _, _)
NormComps(comps, initial_slashes, new_comps) ==
    IF comps = << >> THEN new_comps
    ELSE LET comp == Head(comps)
             rest == Tail(comps)
         IN IF comp = << >> \/ comp = <<".">>
            THEN NormComps(rest, initial_slashes, new_comps)
            ELSE IF \/ comp # DOTDOT
                    \/ (initial_slashes = 0 /\ new_comps = << >>)
                    \/ (new_comps # << >> /\ new_comps[Len(new_comps)] = DOTDOT)
            THEN NormComps(rest, initial_slashes, Append(new_comps, comp))
            ELSE IF new_comps # << >>
            THEN NormComps(rest, initial_slashes,
                           SubSeq(new_comps, 1, Len(new_comps) - 1))
            ELSE NormComps(rest, initial_slashes, new_comps)

\* os.path.normpath, computed
NormpathOf(path) ==
    IF path = << >> THEN <<".">>
    ELSE LET initial_slashes ==
                 IF ~StartsWith(path, <<SEP>>) THEN 0
                 ELSE IF StartsWith(path, <<SEP, SEP>>)
                         /\ ~StartsWith(path, <<SEP, SEP, SEP>>) THEN 2
                 ELSE 1
             body == Join(NormComps(Split(path), initial_slashes, << >>))
             out == [i \in 1..initial_slashes |-> SEP] \o body
         IN IF out = << >> THEN <<".">> ELSE out

NormpathTable == {<<p, NormpathOf(p)>> : p \in PathStrings}

\* os.path.normpath
normpath(path) ==
    IF \E e \in NormpathTable : e[1] = path
    THEN (CHOOSE e \in NormpathTable : e[1] = path)[2]
    ELSE NormpathOf(path)

\* str.lower on one character
Lower(c) ==
    CASE c = "A" -> "a" [] c = "B" -> "b" [] c = "G" -> "g"
      [] c = "N" -> "n" [] c = "P" -> "p" [] OTHER -> c

\* str.lower
NoLower(s) == s

lower(s) == [i \in DOMAIN s |-> Lower(s[i])]

\* os.path.normcase: the identity on posix, lower case on win32
normcase(path) ==
    IF platform = "win32" THEN lower(path) ELSE path

\* os.path.normcase(os.path.normpath(path))
NormRoot(path) == normcase(normpath(path))

\* str(child) for child in Path(drawer_path).iterdir(): pathlib drops empty
\* and "." components and a trailing separator, and keeps ".."
ChildPath(drawer_path, name) ==
    LET comps == SelectSeq(Split(drawer_path),
                           LAMBDA c : c # << >> /\ c # <<".">>)
        lead == IF StartsWith(drawer_path, <<SEP>>) THEN <<SEP>> ELSE << >>
    IN lead \o Join(Append(comps, name))

---------------------------------------------------------------------------
(* The bounded universe.                                                   *)

\* the directories whose content changes
Dirs == {P_ab, P_abb}

\* the path strings given to start()
StartPaths == {P_ab, P_abb}

\* the path strings given to reload_drawer_content() and get_file_list()
CacheKeys == {P_ab, P_ab_slash}

\* watcher-driven reloads use the monitored root as the key
AllKeys == CacheKeys \cup {NormRoot(p) : p \in StartPaths}

\* the directories given to start() where the matching of events is examined
MatchRoots == {P_ab, P_abb, P_root}

\* the roots a timer can be pending for
Roots == {P_ab, P_abb, P_root}

\* the paths of the file events delivered to _handle_event
EventPaths ==
    { P_ab \o <<SEP>> \o X,
      P_abb \o <<SEP>> \o X,
      <<SEP, "a", SEP, SEP, "b", SEP>> \o X,
      <<SEP, "a", SEP, "B", SEP>> \o X,
      <<SEP>> \o X,
      P_ab }

\* what a directory can contain: [name, is_dir] per child, in listing order
Listings == { << >>, <<[name |-> X, is_dir |-> FALSE]>>,
              <<[name |-> X, is_dir |-> FALSE], [name |-> Y, is_dir |-> TRUE]>> }

NotADir == [is_dir |-> FALSE, children |-> << >>]
DirStates == {NotADir} \cup {[is_dir |-> TRUE, children |-> l] : l \in Listings}

\* time advances in steps of TickMs milliseconds
TickMs == 100
\* timer.start(200)
DebounceMs == 200
\* time.sleep(0.2)
SleepMs == 200
\* max_attempts = 5
max_attempts == 5

DebounceTicks == DebounceMs \div TickMs
SleepTicks == SleepMs \div TickMs

MaxTimers == 2
MaxHandlers == 1
MaxEvents == 1
MaxPosted == 1
BurstCap == 2
MaxWorkers == 2

TimerIds == 1..MaxTimers

\* the pool threads that run IconLoadWorker.run
WorkerIds == 1..MaxWorkers

---------------------------------------------------------------------------
(* The file system.                                                        *)

\* os.path.isdir / Path.is_dir: the operating system resolves the path
IsDir(path) ==
    LET d == normpath(path) IN d \in DOMAIN fs /\ fs[d].is_dir

\* list(Path(drawer_path).iterdir()) turned into FileInfo tuples
ListDir(drawer_path) ==
    LET ch == fs[normpath(drawer_path)].children
    IN [i \in DOMAIN ch |->
           [name |-> ch[i].name,
            path |-> ChildPath(drawer_path, ch[i].name),
            is_dir |-> ch[i].is_dir]]

\* a child whose is_dir() probe raises is marked by a field err
Unreadable(child) == "err" \in DOMAIN child

\* the FileInfo tuples of the children of drawer_path that can be read
ReadableEntries(drawer_path) ==
    LET ch == SelectSeq(fs[normpath(drawer_path)].children,
                        LAMBDA c : ~Unreadable(c))
    IN [i \in DOMAIN ch |->
           [name |-> ch[i].name,
            path |-> ChildPath(drawer_path, ch[i].name),
            is_dir |-> ch[i].is_dir]]

\* the child loop of one pass raises: iterdir() or an is_dir() probe fails
ScanRaises(drawer_path) ==
    \/ ~IsDir(drawer_path)
    \/ \E i \in DOMAIN fs[normpath(drawer_path)].children :
           Unreadable(fs[normpath(drawer_path)].children[i])

\* a pass that keeps the entries read before the exception
ListingKeepsRead(drawer_path) ==
    IF ~IsDir(drawer_path) THEN << >> ELSE ReadableEntries(drawer_path)

\* file_list after one pass of the try block of reload_drawer_content: an
\* exception of iterdir() or of one child discards the whole list
Listing(drawer_path) ==
    IF ~IsDir(drawer_path) THEN << >>
    ELSE IF \E i \in DOMAIN fs[normpath(drawer_path)].children :
                Unreadable(fs[normpath(drawer_path)].children[i])
    THEN << >>
    ELSE ListDir(drawer_path)

---------------------------------------------------------------------------
(* Timers.  A QTimer is a slot of `timers'; a slot whose timer is neither  *)
(* active nor referenced by _pending_refreshes can never run again and is  *)
(* given to the next QTimer(self).                                         *)

NoTimer == [root |-> None, active |-> FALSE, rem |-> 0, starts |-> 0]

\* a loop that stops no timer
StopPendingNone(tm, pend) == tm

\* QTimer.stop() on every timer of _pending_refreshes
StopPending(tm, pend) ==
    [i \in DOMAIN tm |->
        IF \E r \in DOMAIN pend : pend[r] = i
        THEN [tm[i] EXCEPT !.active = FALSE, !.rem = 0]
        ELSE tm[i]]

\* unreachable timers leave the model
Collect(tm, pend) ==
    [i \in DOMAIN tm |->
        IF tm[i].active \/ \E r \in DOMAIN pend : pend[r] = i
        THEN tm[i] ELSE NoTimer]

FreeIds(tm) == {i \in DOMAIN tm : tm[i] = NoTimer}
NewId(tm) == CHOOSE i \in FreeIds(tm) : \A j \in FreeIds(tm) : i <= j

\* the passage of n ticks
Elapse(tm, n) ==
    [i \in DOMAIN tm |->
        IF tm[i].active
        THEN [tm[i] EXCEPT !.rem = IF @ > n THEN @ - n ELSE 0]
        ELSE tm[i]]
Aged(age, n) ==
    [r \in DOMAIN age |->
        IF age[r] + n > DebounceTicks THEN DebounceTicks ELSE age[r] + n]

NoWatchdogSignal == wd_signal' = None /\ burst' = 0
NoSignal == NoWatchdogSignal /\ dm_signal' = None
NoCall == result' = None

Idle == [pc |-> "idle", paths |-> {}, key |-> << >>, cause |-> "", attempt |-> 0]

---------------------------------------------------------------------------
(* DrawerWatchdogManager: the watcher thread.                              *)

Comps(path) == SelectSeq(Split(path), LAMBDA c : c # << >>)

\* the operating system's containment: path is directory `dir' or lies beneath it
Within(path, dir) ==
    LET c == Comps(path)
        d == Comps(dir)
    IN Len(d) <= Len(c) /\ SubSeq(c, 1, Len(d)) = d

\* a test that accepts every root
MatchingAll(event_path, roots) == roots

\* the roots accepted by the test of the loop in _handle_event
Matching(event_path, roots) ==
    LET normalized_event_path == NormRoot(event_path)
    IN {root_path \in roots :
           \/ StartsWith(normalized_event_path, root_path \o <<SEP>>)
           \/ normalized_event_path = root_path}

\* affected_root_path after the loop: the first match in the set's iteration
\* order, which the code does not control, or None
AffectedRoots(event_path, roots) ==
    IF Matching(event_path, roots) = {} THEN {None}
    ELSE {Some(r) : r \in Matching(event_path, roots)}

WatchDirs == {NormRoot(p) : p \in StartPaths}

\* the names of the children of a directory state that are (are not) directories
ChildNames(state, is_dir) ==
    {state.children[i].name :
        i \in {j \in DOMAIN state.children : state.children[j].is_dir = is_dir}}

\* the raw event a change of directory d produces: file-level when a file
\* among its children is created, deleted or modified, directory-level
\* (DirCreatedEvent, DirDeletedEvent, is_directory = True) when only a
\* sub-directory appears or disappears or when d itself is deleted
RawEvent(d, old, new, watch) ==
    IF old.is_dir /\ new.is_dir
    THEN IF /\ ChildNames(old, FALSE) = ChildNames(new, FALSE)
            /\ ChildNames(old, TRUE) # ChildNames(new, TRUE)
         THEN LET changed == (ChildNames(old, TRUE) \ ChildNames(new, TRUE))
                                \cup (ChildNames(new, TRUE) \ ChildNames(old, TRUE))
                  n == CHOOSE c \in changed : TRUE
              IN <<[src_path |-> d \o <<SEP>> \o n, is_directory |-> TRUE,
                    watch |-> watch]>>
         ELSE <<[src_path |-> d \o <<SEP>> \o X, is_directory |-> FALSE,
                 watch |-> watch]>>
    ELSE IF old.is_dir
    THEN <<[src_path |-> d, is_directory |-> TRUE, watch |-> watch]>>
    ELSE << >>

\* The environment changes directory d (or modifies a file in it); the
\* emitter of a recursive watch that covers d queues the raw event.
FsChange(d, new) ==
    /\ new # fs[d] \/ fs[d].children # << >>
    /\ fs' = [fs EXCEPT ![d] = new]
    /\ LET watching == {w \in Roots :
                           observer = "alive" /\ handlers[w] > 0 /\ Within(d, w)}
       IN IF watching = {} THEN event_queue' = event_queue
          ELSE \E w \in watching :
                  LET ev == RawEvent(d, fs[d], new, w)
                  IN /\ Len(event_queue) + Len(ev) <= MaxEvents
                     /\ event_queue' = event_queue \o ev
    /\ NoSignal
    /\ NoCall
    /\ UNCHANGED <<ctl, view, _drawers_data, platform, observer, handlers, monitored_paths, timers,
                   _pending_refreshes, posted, main, _file_cache, sinceReq,
                   reloaded, stopped, handled, icon>>

\* an emission whose slot runs in the emitting thread
EmitDirect(tm, pend, q, root_path, k) ==
    [timers |-> [tm EXCEPT ![1] = [root |-> Some(root_path), active |-> TRUE,
                                   rem |-> DebounceTicks, starts |-> 1]],
     pending |-> (root_path :> 1) @@ pend,
     posted |-> q]

\* _scheduleRefreshRequested.emit(root_path) by k handlers on the watcher
\* thread.  The signal was connected in __init__ with the default connection
\* type and its receiver lives in the main thread, so each emission is queued
\* for the main loop; timers and _pending_refreshes are not touched.
EmitScheduleRefresh(tm, pend, q, root_path, k) ==
    [timers |-> tm,
     pending |-> pend,
     posted |-> q \o [i \in 1..k |-> root_path]]

\* BaseObserver.dispatch_events and Handler.on_any_event: the watcher thread
\* takes one raw event and calls every handler scheduled on its watch; each
\* handler drops a directory event and otherwise runs _handle_event, which
\* emits _scheduleRefreshRequested across the thread boundary.
DispatchWithin(cap) ==
    /\ observer = "alive"
    /\ event_queue # << >>
    /\ LET e == Head(event_queue)
           k == handlers[e.watch]
       IN IF e.is_directory \/ k = 0
          THEN UNCHANGED <<posted, handled, timers, _pending_refreshes>>
          ELSE \E res \in AffectedRoots(e.src_path, monitored_paths) :
                  /\ handled' = handled
                  /\ IF res = None
                     THEN UNCHANGED <<posted, timers, _pending_refreshes>>
                     ELSE /\ Len(posted) + k <= cap
                          /\ LET after == EmitScheduleRefresh(timers, _pending_refreshes,
                                                              posted, res[1], k)
                             IN /\ posted' = after.posted
                                /\ timers' = after.timers
                                /\ _pending_refreshes' = after.pending
    /\ event_queue' = Tail(event_queue)
    /\ NoSignal
    /\ NoCall
    /\ UNCHANGED <<ctl, view, _drawers_data, platform, fs, observer, handlers, monitored_paths,
                   main, _file_cache, sinceReq, reloaded, stopped, icon>>

\* the watcher thread, with at most MaxPosted requests waiting for the main loop
Dispatch == DispatchWithin(MaxPosted)

\* _handle_event, called by a handler on the watcher thread with the path of
\* a file event
HandleEvent(event_path) ==
    /\ observer = "alive"
    /\ \E res \in AffectedRoots(event_path, monitored_paths) :
          /\ handled' = Some([path |-> event_path, roots |-> monitored_paths,
                               root |-> res])
          /\ IF res = None
             THEN UNCHANGED <<posted, timers, _pending_refreshes>>
             ELSE /\ Len(posted) < MaxPosted
                  /\ LET after == EmitScheduleRefresh(timers, _pending_refreshes,
                                                      posted, res[1], 1)
                     IN /\ posted' = after.posted
                        /\ timers' = after.timers
                        /\ _pending_refreshes' = after.pending
    /\ NoSignal
    /\ NoCall
    /\ UNCHANGED <<ctl, view, _drawers_data, platform, fs, observer, handlers, event_queue, monitored_paths,
                   main, _file_cache, sinceReq, reloaded, stopped, icon>>

---------------------------------------------------------------------------
(* DrawerWatchdogManager: the main thread.                                 *)

\* a start() that purges the cache entries of the roots it no longer monitors
StartBeginPurging(paths) ==
    /\ main.pc = "idle"
    /\ \A p \in paths : handlers[NormRoot(p)] < MaxHandlers
    /\ monitored_paths' = {}
    /\ timers' = Collect(StopPending(timers, _pending_refreshes), << >>)
    /\ _pending_refreshes' = << >>
    /\ main' = [Idle EXCEPT !.pc = "start", !.paths = paths]
    /\ stopped' = FALSE
    /\ _file_cache' = [k \in {q \in DOMAIN _file_cache :
                                  \E p \in paths : NormRoot(p) = NormRoot(q)} |->
                          _file_cache[k]]
    /\ NoSignal
    /\ NoCall
    /\ UNCHANGED <<ctl, view, _drawers_data, platform, fs, observer, handlers, event_queue, posted,
                   sinceReq, reloaded, handled, icon>>

\* start(), up to and including the clearing of _pending_refreshes; the
\* model follows at most cap handlers per watch
StartWithin(paths, cap) ==
    /\ main.pc = "idle"
    /\ \A p \in paths : handlers[NormRoot(p)] < cap
    /\ monitored_paths' = {}
    /\ timers' = Collect(StopPending(timers, _pending_refreshes), << >>)
    /\ _pending_refreshes' = << >>
    /\ main' = [Idle EXCEPT !.pc = "start", !.paths = paths]
    /\ stopped' = FALSE
    /\ NoSignal
    /\ NoCall
    /\ UNCHANGED <<ctl, view, _drawers_data, platform, fs, observer, handlers, event_queue, posted,
                   _file_cache, sinceReq, reloaded, handled, icon>>

\* start(paths)
StartBegin(paths) == StartWithin(paths, MaxHandlers)

\* a scheduling loop that takes every path for a directory
ScheduledUnchecked(paths) == {NormRoot(p) : p \in paths}

\* the directories start() schedules and keeps
Scheduled(paths) == {NormRoot(p) : p \in {q \in paths : IsDir(NormRoot(q))}}

\* start(), from the scheduling loop on; observer.schedule raises for the
\* paths in `raising', which the loop logs and leaves out.  Thread.start()
\* raises on an observer that was stopped before, which start() catches and
\* logs.
FinishStart(raising) ==
    /\ main.pc = "start"
    /\ raising \subseteq main.paths
    /\ LET normalized_paths == Scheduled(main.paths \ raising)
       IN /\ handlers' = [w \in DOMAIN handlers |->
                             IF w \in normalized_paths THEN handlers[w] + 1
                             ELSE handlers[w]]
          /\ monitored_paths' = normalized_paths
          /\ observer' = IF normalized_paths # {} /\ observer = "new"
                         THEN "alive" ELSE observer
    /\ main' = Idle
    /\ NoSignal
    /\ NoCall
    /\ UNCHANGED <<ctl, view, _drawers_data, platform, fs, event_queue, timers, _pending_refreshes, posted,
                   _file_cache, sinceReq, reloaded, stopped, handled, icon>>

\* start() where every observer.schedule succeeds
StartFinish == FinishStart({})

\* start() where observer.schedule may raise
StartFinishRaising == \E raising \in SUBSET main.paths : FinishStart(raising)

\* stop(): observer.stop() unschedules every watch and join() returns once the
\* watcher thread has left its loop; events still in its queue are not dispatched
Stop ==
    /\ main.pc = "idle"
    /\ IF observer = "alive"
       THEN /\ observer' = "stopped"
            /\ handlers' = [w \in DOMAIN handlers |-> 0]
            /\ event_queue' = << >>
       ELSE UNCHANGED <<observer, handlers, event_queue>>
    /\ monitored_paths' = {}
    /\ timers' = Collect(StopPending(timers, _pending_refreshes), << >>)
    /\ _pending_refreshes' = << >>
    /\ stopped' = TRUE
    /\ NoSignal
    /\ NoCall
    /\ UNCHANGED <<ctl, view, _drawers_data, platform, fs, posted, main, _file_cache, sinceReq,
                   reloaded, handled, icon>>

\* a _processRefreshRequest that lets a running timer run on
DebounceNoRestart(tm, pend, root_path) ==
    IF root_path \in DOMAIN pend
    THEN [timers |-> tm, pending |-> pend]
    ELSE LET timer == NewId(tm)
         IN [timers |-> [tm EXCEPT ![timer] =
                            [root |-> Some(root_path), active |-> TRUE,
                             rem |-> DebounceTicks, starts |-> 1]],
             pending |-> (root_path :> timer) @@ pend]

\* a _processRefreshRequest that makes a timer for every request
DebounceAlwaysNew(tm, pend, root_path) ==
    IF FreeIds(tm) = {}
    THEN [timers |-> tm, pending |-> pend]
    ELSE LET timer == NewId(tm)
         IN [timers |-> [tm EXCEPT ![timer] =
                            [root |-> Some(root_path), active |-> TRUE,
                             rem |-> DebounceTicks, starts |-> 1]],
             pending |-> (root_path :> timer) @@ pend]

\* the body of _processRefreshRequest: the timers and _pending_refreshes after it
Debounce(tm, pend, root_path) ==
    IF root_path \in DOMAIN pend
    THEN [timers |-> [tm EXCEPT ![pend[root_path]] =
                          [@ EXCEPT !.active = TRUE, !.rem = DebounceTicks,
                                    !.starts = IF @ < BurstCap THEN @ + 1 ELSE @]],
          pending |-> pend]
    ELSE LET timer == NewId(tm)
         IN [timers |-> [tm EXCEPT ![timer] =
                            [root |-> Some(root_path), active |-> TRUE,
                             rem |-> DebounceTicks, starts |-> 1]],
             pending |-> (root_path :> timer) @@ pend]

\* the main loop delivers one queued _scheduleRefreshRequested
ProcessRefreshRequest ==
    /\ main.pc = "idle"
    /\ posted # << >>
    /\ LET root_path == Head(posted)
           after == Debounce(timers, _pending_refreshes, root_path)
       IN /\ root_path \in DOMAIN _pending_refreshes \/ FreeIds(timers) # {}
          /\ timers' = after.timers
          /\ _pending_refreshes' = after.pending
          /\ sinceReq' = [sinceReq EXCEPT ![root_path] = 0]
    /\ posted' = Tail(posted)
    /\ NoSignal
    /\ NoCall
    /\ UNCHANGED <<ctl, view, _drawers_data, platform, fs, observer, handlers, event_queue, monitored_paths,
                   main, _file_cache, reloaded, stopped, handled, icon>>

---------------------------------------------------------------------------
(* DrawerContentWidget, AppController.on_directory_changed and a caller of *)
(* DataManager that keeps a list it was given.  view is [current_folder,   *)
(* items, tasks, stale, held]: items are the paths of the widgets shown,   *)
(* tasks the icon workers the last rendering started, held the list object *)
(* a caller keeps.                                                         *)

NoView == [current_folder |-> << >>, items |-> << >>, tasks |-> << >>,
           stale |-> FALSE, held |-> None]

---------------------------------------------------------------------------
(* AppController: the drawer lock and the drawer list.  A drawer dict is   *)
(* [name, path, size]; ctl is [_locked, _locked_item_data, sizes, items,   *)
(* saved, call, signal]: sizes are the "size" entries of _drawers_data,    *)
(* items the data stored in the rows of the list view, saved the drawers   *)
(* last written to or read from the settings file, call the last handler   *)
(* of the controller that ran and signal what that call emitted.           *)

\* QSize(640, 480), the size used when a drawer has none
DefaultSize == "640x480"

\* the size get_drawer_content_size() returns: the user has resized the view
ContentSizes == {"800x600"}

\* Path(folder_path_str).name
PathName(folder_path_str) ==
    LET comps == SelectSeq(Split(folder_path_str),
                           LAMBDA c : c # << >> /\ c # <<".">>)
    IN IF comps = << >> THEN << >> ELSE comps[Len(comps)]

\* the entry of _drawers_data at index i
Config(drawers, sizes, i) ==
    [name |-> PathName(drawers[i]), path |-> drawers[i], size |-> sizes[i]]

Configs(drawers, sizes) == [i \in DOMAIN drawers |-> Config(drawers, sizes, i)]

NoHandler == [op |-> "", row |-> 0, path |-> << >>]

NoCtl == [_locked |-> FALSE, _locked_item_data |-> None, sizes |-> << >>,
          items |-> << >>, saved |-> << >>, call |-> NoHandler, signal |-> None]

\* _create_file_item_placeholder: FileIconWidget.load_icon starts an
\* IconLoadWorker on QThreadPool.globalInstance()
PlaceholderTasks(file_list) ==
    [i \in DOMAIN file_list |->
        [pool |-> "globalInstance", file_path |-> file_list[i].path]]

\* _start_async_icon_loading: an IconLoadWorker per item on icon_load_pool
AsyncTasks(file_list) ==
    [i \in DOMAIN file_list |->
        [pool |-> "icon_load_pool", file_path |-> file_list[i].path]]

\* update_with_file_list(folder_path, file_list); file_list is None (the
\* loading label), empty, or the entries to show
update_with_file_list(v, folder_path, file_list) ==
    LET shown == IF file_list = None THEN << >> ELSE file_list[1]
    IN [v EXCEPT !.current_folder = folder_path,
                 !.items = [i \in DOMAIN shown |-> shown[i].path],
                 !.tasks = PlaceholderTasks(shown) \o AsyncTasks(shown),
                 !.stale = FALSE]

\* AppController.on_directory_changed: updateDrawerContent.emit(path), a
\* signal no slot is connected to.  stale records that the folder shown was
\* reported changed and not rendered since.
on_directory_changed(v, path) ==
    [v EXCEPT !.stale = @ \/ path = v.current_folder]

\* a store that rewrites the list object of the entry
RebindInPlace(h, drawer_path, file_list) ==
    IF h # None /\ h[1].cached /\ h[1].key = drawer_path
    THEN Some([h[1] EXCEPT !.value = file_list])
    ELSE h

\* `self._file_cache[drawer_path] = file_list' for a caller holding the list
\* object the entry referred to: the entry refers to the new list, the
\* caller's object is no longer the cached one
Rebind(h, drawer_path, file_list) ==
    IF h # None /\ h[1].cached /\ h[1].key = drawer_path
    THEN Some([h[1] EXCEPT !.cached = FALSE])
    ELSE h

\* what follows the store of reload_drawer_content in its caller:
\* _on_directory_changed ("watch"), update_content ("show"),
\* _refresh_content ("refresh"), add_new_drawer ("user")
AfterReload(v, drawer_path, cause, file_list) ==
    LET w == [v EXCEPT !.held = Rebind(@, drawer_path, file_list)]
    IN CASE cause = "watch" -> on_directory_changed(w, drawer_path)
         [] cause = "show" -> update_with_file_list(w, drawer_path, Some(file_list))
         [] cause = "refresh" -> update_with_file_list(w, drawer_path, Some(file_list))
         [] OTHER -> w

---------------------------------------------------------------------------
(* DataManager.                                                            *)

\* a store that skips an empty listing
StoreIfNonEmpty(cache, drawer_path, file_list) ==
    IF file_list = << >> THEN cache ELSE (drawer_path :> file_list) @@ cache

\* a store under the normalized spelling of the key
StoreNormalized(cache, drawer_path, file_list) ==
    (normpath(drawer_path) :> file_list) @@ cache

\* a store that evicts the entry of an empty listing
StoreOrEvict(cache, drawer_path, file_list) ==
    IF file_list = << >>
    THEN [k \in DOMAIN cache \ {drawer_path} |-> cache[k]]
    ELSE (drawer_path :> file_list) @@ cache

\* self._file_cache[drawer_path] = file_list
Store(cache, drawer_path, file_list) == (drawer_path :> file_list) @@ cache

\* get_file_list: dict.get
get_file_list(drawer_path) ==
    IF drawer_path \in DOMAIN _file_cache THEN Some(_file_cache[drawer_path])
    ELSE None

\* the calls of time.sleep(0.2) made by a scan of so many passes: the sleep
\* is the first statement of the try block of every pass
Sleeps(attempts) == attempts

\* reload_drawer_content stores file_list and returns it; called from
\* _on_directory_changed, the public directoryChanged follows
Return(drawer_path, cause, file_list, attempts) ==
    /\ _file_cache' = Store(_file_cache, drawer_path, file_list)
    /\ result' = Some([op |-> "reload", key |-> drawer_path,
                        value |-> Some(file_list), attempts |-> attempts,
                        delays |-> Sleeps(attempts)])
    /\ reloaded' = reloaded \cup {drawer_path}
    /\ dm_signal' = IF cause = "watch" THEN Some(drawer_path) ELSE None
    /\ main' = Idle
    /\ view' = AfterReload(view, drawer_path, cause, file_list)

\* reload_drawer_content up to its first sleep: a path that is no directory
\* is answered at once
BeginReload(drawer_path, cause) ==
    IF ~IsDir(drawer_path)
    THEN Return(drawer_path, cause, << >>, 0)
    ELSE /\ main' = [Idle EXCEPT !.pc = "reload", !.key = drawer_path,
                                 !.cause = cause]
         /\ dm_signal' = None
         /\ result' = None
         /\ UNCHANGED <<_file_cache, reloaded, view>>

\* a loop that never tries again
LoopEndsAtOnce(file_list, attempt) == TRUE

\* `if file_list: break', or range(max_attempts) is exhausted
LoopEnds(file_list, attempt) ==
    file_list # << >> \/ attempt + 1 = max_attempts

\* one pass of the retry loop: sleep, list the directory (a listing that
\* raises leaves file_list empty), then leave the loop or try again
ScanAttempt ==
    /\ main.pc = "reload"
    /\ LET file_list == Listing(main.key)
       IN IF LoopEnds(file_list, main.attempt)
          THEN Return(main.key, main.cause, file_list, main.attempt + 1)
          ELSE /\ main' = [main EXCEPT !.attempt = @ + 1]
               /\ dm_signal' = None
               /\ result' = None
               /\ UNCHANGED <<_file_cache, reloaded, view>>
    /\ timers' = Elapse(timers, SleepTicks)
    /\ sinceReq' = Aged(sinceReq, SleepTicks)
    /\ NoWatchdogSignal
    /\ UNCHANGED <<ctl, _drawers_data, platform, fs, observer, handlers, event_queue, monitored_paths,
                   _pending_refreshes, posted, stopped, handled, icon>>

\* an expiry that keeps its entry
ExpiredKeeps(pend, root_path) == pend

\* _pending_refreshes after the locked block of _emit_refresh_signal
Expired(pend, root_path) == [r \in DOMAIN pend \ {root_path} |-> pend[r]]

\* A timer times out on the main loop: _emit_refresh_signal emits
\* directoryChanged, whose slot _on_directory_changed reloads the root.
TimerExpire(i) ==
    /\ main.pc = "idle"
    /\ timers[i].active
    /\ timers[i].rem = 0
    /\ LET root_path == timers[i].root[1]
           pend == Expired(_pending_refreshes, root_path)
       IN /\ _pending_refreshes' = pend
          /\ timers' = Collect([timers EXCEPT ![i].active = FALSE], pend)
          /\ wd_signal' = Some(root_path)
          /\ burst' = timers[i].starts
          /\ BeginReload(root_path, "watch")
    /\ UNCHANGED <<ctl, _drawers_data, platform, fs, observer, handlers, event_queue, monitored_paths,
                   posted, sinceReq, stopped, handled, icon>>

\* reload_drawer_content called by the user interface (a new drawer, the
\* refresh button, update_content)
UserReload(drawer_path) ==
    /\ main.pc = "idle"
    /\ BeginReload(drawer_path, "user")
    /\ NoWatchdogSignal
    /\ UNCHANGED <<ctl, _drawers_data, platform, fs, observer, handlers, event_queue, monitored_paths,
                   timers, _pending_refreshes, posted, sinceReq, stopped,
                   handled, icon>>

\* get_file_list called by the user interface
GetFileList(drawer_path) ==
    /\ main.pc = "idle"
    /\ result' = Some([op |-> "get", key |-> drawer_path,
                        value |-> get_file_list(drawer_path)])
    /\ NoSignal
    /\ UNCHANGED <<ctl, view, _drawers_data, platform, fs, observer, handlers, event_queue, monitored_paths,
                   timers, _pending_refreshes, posted, main, _file_cache, sinceReq,
                   reloaded, stopped, handled, icon>>

\* TickMs milliseconds pass while the main loop is idle
Tick ==
    /\ main.pc = "idle"
    /\ timers' = Elapse(timers, 1)
    /\ sinceReq' = Aged(sinceReq, 1)
    /\ NoSignal
    /\ NoCall
    /\ UNCHANGED <<ctl, view, _drawers_data, platform, fs, observer, handlers, event_queue, monitored_paths,
                   _pending_refreshes, posted, main, _file_cache, reloaded,
                   stopped, handled, icon>>

\* MainWindow._on_show_drawer_content: handle_item_selected accepted the
\* drawer (its path is a directory) and update_content(path) reloads the
\* path, reads the cache and renders
ShowDrawer(path) ==
    /\ main.pc = "idle"
    /\ IsDir(path)
    /\ BeginReload(path, "show")
    /\ NoWatchdogSignal
    /\ UNCHANGED <<ctl, _drawers_data, platform, fs, observer, handlers, event_queue,
                   monitored_paths, timers, _pending_refreshes, posted, sinceReq,
                   stopped, handled, icon>>

\* DrawerContentWidget._refresh_content, the slot of the refresh button
RefreshContent ==
    /\ main.pc = "idle"
    /\ view.current_folder # << >>
    /\ BeginReload(view.current_folder, "refresh")
    /\ NoWatchdogSignal
    /\ UNCHANGED <<ctl, _drawers_data, platform, fs, observer, handlers, event_queue,
                   monitored_paths, timers, _pending_refreshes, posted, sinceReq,
                   stopped, handled, icon>>

---------------------------------------------------------------------------
(* The icon pipeline.  A QIcon is [src, null]; a call that can raise yields *)
(* [raised, value], value being None or a QIcon.  What Qt and LnkParse3 do  *)
(* for a file is not computed: icon.env fixes the outcome of each of them,  *)
(* "icon", "null" or "raise".                                               *)

QIcon(src) == [src |-> src, null |-> FALSE]
NullIcon == [src |-> "QIcon()", null |-> TRUE]

Ret(v) == [raised |-> FALSE, value |-> v]
Raise == [raised |-> TRUE, value |-> None]

\* `icon and not icon.isNull()'
Good(v) == v # None /\ ~v[1].null

KeyFolder == <<"f", "o", "l", "d", "e", "r">>
KeyFile == <<"f", "i", "l", "e">>
KeyUnknown == <<"u", "n", "k", "n", "o", "w", "n">>

ExtPng == <<".", "p", "n", "g">>
ExtLnk == <<".", "l", "n", "k">>
SUPPORTED_IMAGE_EXTENSIONS == {ExtPng}

\* os.path.isfile
IsFile(path) ==
    \E d \in DOMAIN fs :
        /\ fs[d].is_dir
        /\ \E i \in DOMAIN fs[d].children :
              /\ ~fs[d].children[i].is_dir
              /\ normpath(path) = ChildPath(d, fs[d].children[i].name)

\* os.path.splitext(path)[1]: from the last dot of the last component, unless
\* only dots precede it there
splitext(path) ==
    LET seps == {i \in DOMAIN path : path[i] = SEP}
        base == IF seps = {} THEN 1
                ELSE 1 + CHOOSE i \in seps : \A j \in seps : j <= i
        dots == {i \in base..Len(path) : path[i] = "."}
    IN IF dots = {} THEN << >>
       ELSE LET dot == CHOOSE i \in dots : \A j \in dots : j <= i
            IN IF \E j \in base..(dot - 1) : path[j] # "."
               THEN SubSeq(path, dot, Len(path))
               ELSE << >>

\* the probe of the path fails with an OSError (permission denied): the
\* entry of the path carries a field err
ProbeRaises(path) ==
    LET d == normpath(path) IN d \in DOMAIN fs /\ "err" \in DOMAIN fs[d]

\* validate_path: None, or the ValidatedPathInfo
validate_path(path) ==
    IF path.type # "str" \/ path.text = << >> THEN None
    ELSE IF ProbeRaises(path.text) THEN None
    ELSE IF IsDir(path.text)
    THEN Some([full_path |-> path.text, path_type |-> "directory", extension |-> None])
    ELSE IF IsFile(path.text)
    THEN Some([full_path |-> path.text, path_type |-> "file",
               extension |-> Some(lower(splitext(path.text)))])
    ELSE None

\* DefaultIconProvider._initialize_default_icons: QIcon.fromTheme(name, QIcon())
\* is the theme's icon or the null icon
DefaultIcons(themes) ==
    (KeyFolder :> (IF themes.folder THEN QIcon("folder") ELSE NullIcon))
    @@ (KeyFile :> (IF themes.file THEN QIcon("file") ELSE NullIcon))
    @@ (KeyUnknown :> (IF themes.unknown THEN QIcon("unknown") ELSE NullIcon))

\* DEFAULT_ICONS.get(key) or the fallback; a QIcon object is true
DefaultOr(defaults, key, fallback) ==
    IF key \in DOMAIN defaults THEN defaults[key] ELSE fallback

get_unknown_icon(defaults) == DefaultOr(defaults, KeyUnknown, NullIcon)
get_file_icon(defaults) == DefaultOr(defaults, KeyFile, get_unknown_icon(defaults))
get_folder_icon(defaults) == DefaultOr(defaults, KeyFolder, get_unknown_icon(defaults))

\* DefaultIconProvider.get_icon_for_extension
get_icon_for_extension(defaults, extension) ==
    IF lower(extension) \in DOMAIN defaults THEN Some(defaults[lower(extension)])
    ELSE None

\* _initialize_icon_components: the module's globals after it
InitializeIconComponents(ic, outcome) ==
    IF ic._initialized THEN ic
    ELSE IF outcome.raises
    THEN [ic EXCEPT !._icon_dispatcher = FALSE,
                    !._unknown_icon = Some(NullIcon),
                    !._initialized = TRUE]
    ELSE [ic EXCEPT !.DEFAULT_ICONS = DefaultIcons(outcome),
                    !._icon_dispatcher = TRUE,
                    !._unknown_icon = Some(get_unknown_icon(DefaultIcons(outcome))),
                    !._initialized = TRUE]

\* a library call with the outcome the environment fixes for it
Call(outcome, src) ==
    CASE outcome = "icon" -> Ret(Some(QIcon(src)))
      [] outcome = "null" -> Ret(Some(NullIcon))
      [] OTHER -> Raise

\* ThumbnailWorker.can_handle
can_handle(path_info) ==
    /\ path_info.path_type = "file"
    /\ path_info.extension # None
    /\ path_info.extension[1] \in SUPPORTED_IMAGE_EXTENSIONS

\* ThumbnailWorker.get_icon: an unreadable image and an exception both give None
ThumbnailWorker(path_info, env) ==
    IF ~can_handle(path_info) THEN Ret(None)
    ELSE LET r == Call(env.thumb, "thumbnail")
         IN IF r.raised \/ ~Good(r.value) THEN Ret(None) ELSE r

\* try_get_icon on a path that exists
try_get_icon(outcome, src) ==
    LET r == Call(outcome, src)
    IN IF r.raised \/ ~Good(r.value) THEN Ret(None) ELSE r

\* LnkIconWorker.get_icon: a parse error gives None, and so does a shortcut
\* whose icon location and target yield no icon
LnkIconWorker(path_info, env) ==
    IF ~env.has_lnkparse \/ platform # "win32" THEN Ret(None)
    ELSE IF env.lnk = "raise" THEN Ret(None)
    ELSE try_get_icon(env.lnk, "lnk")

\* the QFileIconProvider step of dispatch without its try/except
QtProviderUnguarded(path_info, env) ==
    Call(env.qt, "native")

\* the QFileIconProvider step of dispatch: the icon, or None for "go on"
QtProvider(path_info, env) ==
    LET r == Call(env.qt, "native")
    IN IF r.raised \/ ~Good(r.value) THEN Ret(None) ELSE r

\* DirectoryIconWorker.get_icon
DirectoryIconWorker(path_info, defaults) == Ret(Some(get_folder_icon(defaults)))

\* FileIconWorker.get_icon
FileIconWorker(path_info, defaults, env) ==
    LET specific_icon ==
            IF path_info.extension # None /\ path_info.extension[1] # << >>
            THEN get_icon_for_extension(defaults, path_info.extension[1])
            ELSE None
    IN IF specific_icon # None THEN Ret(specific_icon)
       ELSE try_get_icon(env.direct, "direct")

\* the end of IconDispatcher.dispatch: directory worker, file worker, generic
\* file icon, None
DispatchFallback(path_info, defaults, env) ==
    LET d == IF path_info.path_type = "directory"
             THEN DirectoryIconWorker(path_info, defaults) ELSE Ret(None)
    IN IF d.raised \/ Good(d.value) THEN d
       ELSE IF path_info.path_type = "file"
       THEN LET f == FileIconWorker(path_info, defaults, env)
            IN IF f.raised \/ Good(f.value) THEN f
               ELSE Ret(Some(get_file_icon(defaults)))
       ELSE Ret(None)

\* IconDispatcher.dispatch
dispatch(path_info, defaults, env) ==
    LET t == IF path_info.path_type = "file" /\ can_handle(path_info)
             THEN ThumbnailWorker(path_info, env) ELSE Ret(None)
        l == IF /\ path_info.path_type = "file"
                /\ platform = "win32"
                /\ path_info.extension = Some(ExtLnk)
                /\ env.has_lnkparse
             THEN LnkIconWorker(path_info, env) ELSE Ret(None)
        q == QtProvider(path_info, env)
    IN IF t.raised \/ Good(t.value) THEN t
       ELSE IF l.raised \/ Good(l.value) THEN l
       ELSE IF q.raised \/ Good(q.value) THEN q
       ELSE DispatchFallback(path_info, defaults, env)

\* get_icon_for_path after the initialisation
get_icon_for_path(full_path, ic, env) ==
    LET local_unknown_icon ==
            IF ic._unknown_icon # None THEN ic._unknown_icon[1] ELSE NullIcon
        validated_path_info == validate_path(full_path)
    IN IF ~ic._icon_dispatcher THEN Ret(Some(local_unknown_icon))
       ELSE IF validated_path_info = None THEN Ret(Some(local_unknown_icon))
       ELSE LET d == dispatch(validated_path_info[1], ic.DEFAULT_ICONS, env)
            IN IF d.raised THEN Ret(Some(local_unknown_icon))
               ELSE IF Good(d.value) THEN d
               ELSE Ret(Some(local_unknown_icon))

Outcomes == {"icon", "null", "raise"}
Envs == [thumb : Outcomes, lnk : Outcomes, qt : Outcomes, direct : Outcomes,
         has_lnkparse : BOOLEAN]

\* how the lazy initialisation ends: it raises, or the themes have the icons or not
InitOutcomes ==
    [raises : {FALSE}, folder : BOOLEAN, file : BOOLEAN, unknown : BOOLEAN]
    \cup {[raises |-> TRUE, folder |-> FALSE, file |-> FALSE, unknown |-> FALSE]}

\* the outcome given to a call that finds the components initialised
NotRun == [raises |-> FALSE, folder |-> TRUE, file |-> TRUE, unknown |-> TRUE]

\* a worker thread calls get_icon_for_path(full_path); `outcome' is what the
\* lazy initialisation meets if this call runs it
GetIconForPath(full_path, outcome) ==
    /\ icon._initialized => outcome = NotRun
    /\ LET ic == InitializeIconComponents(icon, outcome)
           r == get_icon_for_path(full_path, ic, ic.env)
       IN icon' = [ic EXCEPT !.call = Some([path |-> full_path,
                                            raised |-> r.raised,
                                            value |-> r.value])]
    /\ NoSignal
    /\ NoCall
    /\ UNCHANGED <<ctl, view, _drawers_data, platform, fs, observer, handlers, event_queue, monitored_paths,
                   timers, _pending_refreshes, posted, main, _file_cache, sinceReq,
                   reloaded, stopped, handled>>

\* The same call, statement by statement, for pool threads that run
\* concurrently.  icon.workers[t] is the position of thread t: "ready"
\* before the call, "load" to "publish" inside the body of
\* _initialize_icon_components, "use" after it, "done" after the call.
InitBody == {"load", "folder", "file", "unknown", "publish"}

LazyStep(ic) ==
    /\ icon' = ic
    /\ NoSignal
    /\ NoCall
    /\ UNCHANGED <<ctl, view, _drawers_data, platform, fs, observer, handlers, event_queue,
                   monitored_paths, timers, _pending_refreshes, posted, main,
                   _file_cache, sinceReq, reloaded, stopped, handled>>

\* `if _initialized: return'
LazyCheck(t) ==
    /\ icon.workers[t] = "ready"
    /\ LazyStep([icon EXCEPT !.workers[t] =
                    IF icon._initialized THEN "use" ELSE "load"])

\* load_settings, then DefaultIconProvider(...): DEFAULT_ICONS.clear()
LazyClear(t) ==
    /\ icon.workers[t] = "load"
    /\ LazyStep([icon EXCEPT !.DEFAULT_ICONS = << >>, !.workers[t] = "folder"])

\* _initialize_default_icons: DEFAULT_ICONS["folder"], ["file"], ["unknown"]
\* are assigned one after the other
LazyFill(t) ==
    /\ icon.workers[t] \in {"folder", "file", "unknown"}
    /\ LET key == CASE icon.workers[t] = "folder" -> KeyFolder
                    [] icon.workers[t] = "file" -> KeyFile
                    [] OTHER -> KeyUnknown
           next == CASE icon.workers[t] = "folder" -> "file"
                     [] icon.workers[t] = "file" -> "unknown"
                     [] OTHER -> "publish"
       IN LazyStep([icon EXCEPT
                       !.DEFAULT_ICONS = (key :> DefaultIcons(NotRun)[key]) @@ @,
                       !.workers[t] = next])

\* _icon_dispatcher, _unknown_icon and _initialized = True are assigned
LazyPublish(t) ==
    /\ icon.workers[t] = "publish"
    /\ LazyStep([icon EXCEPT
                    !._icon_dispatcher = TRUE,
                    !._unknown_icon = Some(get_unknown_icon(icon.DEFAULT_ICONS)),
                    !._initialized = TRUE,
                    !.workers[t] = "use"])

\* the rest of get_icon_for_path: validate_path and dispatch, which reads
\* DEFAULT_ICONS through the provider's getters
LazyUse(t, full_path) ==
    /\ icon.workers[t] = "use"
    /\ LET r == get_icon_for_path(full_path, icon, icon.env)
       IN LazyStep([icon EXCEPT
                       !.call = Some([path |-> full_path, raised |-> r.raised,
                                      value |-> r.value]),
                       !.workers[t] = "done"])

---------------------------------------------------------------------------
(* Spec: the watcher thread, the debounce timers and the notification      *)
(* chain, for two monitored directories whose files are modified.          *)

\* every library call yields an icon
EnvAllIcons == [thumb |-> "icon", lnk |-> "icon", qt |-> "icon", direct |-> "icon",
                has_lnkparse |-> TRUE]

\* the globals of icon_loader before the first call
NoIcon == [_initialized |-> FALSE, _icon_dispatcher |-> FALSE, _unknown_icon |-> None,
           DEFAULT_ICONS |-> << >>, env |-> EnvAllIcons, call |-> None,
           workers |-> [t \in WorkerIds |-> "ready"]]

HasX == [is_dir |-> TRUE, children |-> <<[name |-> X, is_dir |-> FALSE]>>]

InitProgram ==
    /\ observer = "new"
    /\ handlers = [w \in Roots |-> 0]
    /\ event_queue = << >>
    /\ monitored_paths = {}
    /\ timers = [i \in TimerIds |-> NoTimer]
    /\ _pending_refreshes = << >>
    /\ posted = << >>
    /\ main = Idle
    /\ _file_cache = << >>
    /\ wd_signal = None
    /\ dm_signal = None
    /\ burst = 0
    /\ sinceReq = [w \in Roots |-> DebounceTicks]
    /\ reloaded = {}
    /\ stopped = FALSE
    /\ view = NoView
    /\ ctl = NoCtl
    /\ _drawers_data = << >>
    /\ handled = None
    /\ result = None
    /\ icon = NoIcon

Init ==
    /\ platform = "posix"
    /\ fs = [d \in Dirs |-> HasX]
    /\ InitProgram

Next ==
    \/ \E d \in Dirs : FsChange(d, fs[d])
    \/ Dispatch
    \/ \E paths \in SUBSET StartPaths : StartBegin(paths)
    \/ StartFinish
    \/ Stop
    \/ ProcessRefreshRequest
    \/ \E i \in TimerIds : TimerExpire(i)
    \/ ScanAttempt
    \/ Tick

Spec == Init /\ [][Next]_vars

---------------------------------------------------------------------------
(* SpecCache: the file cache of DataManager, for one monitored directory   *)
(* whose content changes, read and reloaded under two spellings.           *)

InitCache ==
    /\ platform = "posix"
    /\ fs \in {f \in [Dirs -> DirStates] : f[P_abb] = NotADir}
    /\ InitProgram

NextCache ==
    \/ \E new \in DirStates : FsChange(P_ab, new)
    \/ Dispatch
    \/ \E paths \in SUBSET {P_ab} : StartBegin(paths)
    \/ StartFinish
    \/ Stop
    \/ ProcessRefreshRequest
    \/ \E i \in TimerIds : TimerExpire(i)
    \/ ScanAttempt
    \/ \E k \in CacheKeys : UserReload(k)
    \/ \E k \in CacheKeys : GetFileList(k)
    \/ Tick

SpecCache == InitCache /\ [][NextCache]_vars

---------------------------------------------------------------------------
(* SpecMatch: _handle_event on both platforms, for monitored sets that may *)
(* hold the file system root.                                              *)

InitMatch ==
    /\ platform \in {"posix", "win32"}
    /\ fs = [d \in Dirs \cup {P_root} |-> HasX]
    /\ InitProgram

NextMatch ==
    \/ \E paths \in SUBSET MatchRoots : StartBegin(paths)
    \/ StartFinish
    \/ \E e \in EventPaths : HandleEvent(e)
    \/ ProcessRefreshRequest
    \/ \E i \in TimerIds : TimerExpire(i)
    \/ ScanAttempt
    \/ Tick

SpecMatch == InitMatch /\ [][NextMatch]_vars

---------------------------------------------------------------------------
(* SpecStart: start() and stop() on both platforms, for paths that are     *)
(* directories or not and whose scheduling succeeds or raises.             *)

\* the path strings given to start()
StartInputs == {P_ab, P_ab_slash, P_abb, P_root}

InitStart ==
    /\ platform \in {"posix", "win32"}
    /\ fs \in {f \in [Dirs \cup {P_root} -> {HasX, NotADir}] : f[P_root] = HasX}
    /\ InitProgram

NextStart ==
    \/ \E paths \in SUBSET StartInputs : StartBegin(paths)
    \/ StartFinishRaising
    \/ Stop

SpecStart == InitStart /\ [][NextStart]_vars

---------------------------------------------------------------------------
(* SpecScan: reload_drawer_content of one directory that changes, vanishes *)
(* or holds a child that cannot be read.                                   *)

\* a directory whose second child raises when probed
HasUnreadable ==
    [is_dir |-> TRUE,
     children |-> <<[name |-> X, is_dir |-> FALSE],
                    [name |-> Y, is_dir |-> TRUE, err |-> TRUE]>>]

ScanStates == DirStates \cup {HasUnreadable}

InitScan ==
    /\ platform = "posix"
    /\ fs \in {f \in [Dirs -> ScanStates] : f[P_abb] = NotADir}
    /\ InitProgram

NextScan ==
    \/ \E new \in ScanStates : FsChange(P_ab, new)
    \/ \E k \in CacheKeys : UserReload(k)
    \/ ScanAttempt
    \/ \E k \in CacheKeys : GetFileList(k)

SpecScan == InitScan /\ [][NextScan]_vars

---------------------------------------------------------------------------
(* SpecNotify: one drawer, configured under one of two spellings of its    *)
(* path, monitored, shown in the content widget and changed on disk.       *)

NotifyPaths == {P_ab, P_ab_slash}

HasXY == [is_dir |-> TRUE,
          children |-> <<[name |-> X, is_dir |-> FALSE], [name |-> Y, is_dir |-> TRUE]>>]

DrawerPathSet == {_drawers_data[i] : i \in DOMAIN _drawers_data}

InitNotify ==
    /\ platform = "posix"
    /\ fs = (P_ab :> HasX) @@ (P_abb :> NotADir)
    /\ \E p \in NotifyPaths : _drawers_data = <<p>>
    /\ observer = "new"
    /\ handlers = [w \in Roots |-> 0]
    /\ event_queue = << >>
    /\ monitored_paths = {}
    /\ timers = [i \in TimerIds |-> NoTimer]
    /\ _pending_refreshes = << >>
    /\ posted = << >>
    /\ main = Idle
    /\ _file_cache = << >>
    /\ wd_signal = None
    /\ dm_signal = None
    /\ burst = 0
    /\ sinceReq = [w \in Roots |-> DebounceTicks]
    /\ reloaded = {}
    /\ stopped = FALSE
    /\ handled = None
    /\ result = None
    /\ icon = NoIcon
    /\ view = NoView
    /\ ctl = NoCtl

NextNotify ==
    \/ \E new \in {HasX, HasXY} : FsChange(P_ab, new)
    \/ Dispatch
    \/ StartBegin(DrawerPathSet)
    \/ StartFinish
    \/ ProcessRefreshRequest
    \/ \E i \in TimerIds : TimerExpire(i)
    \/ ScanAttempt
    \/ \E path \in DrawerPathSet : ShowDrawer(path)
    \/ RefreshContent
    \/ Tick

SpecNotify == InitNotify /\ [][NextNotify]_vars

\* the watcher thread and the main loop take their steps; what the user does
\* and what happens on disk is not bound to happen
SpecNotifyFair ==
    /\ SpecNotify
    /\ WF_vars(Dispatch)
    /\ WF_vars(StartFinish)
    /\ WF_vars(ProcessRefreshRequest)
    /\ WF_vars(\E i \in TimerIds : TimerExpire(i))
    /\ WF_vars(ScanAttempt)
    /\ WF_vars(Tick)

---------------------------------------------------------------------------
(* SpecLive: one drawer is monitored once and the set of children of its   *)
(* directory changes while the observer runs.                              *)

IsEmpty == [is_dir |-> TRUE, children |-> << >>]

\* monitoring of root is running: start() has returned with the root in
\* monitored_paths and the observer thread is alive
Monitoring(root) ==
    /\ observer = "alive"
    /\ main.pc # "start"
    /\ root \in monitored_paths

NextLive ==
    \/ \E new \in {IsEmpty, HasX, HasXY} \ {fs[P_ab]} :
          Monitoring(P_ab) /\ FsChange(P_ab, new)
    \/ Dispatch
    \/ observer = "new" /\ StartBegin(DrawerPathSet)
    \/ StartFinish
    \/ ProcessRefreshRequest
    \/ \E i \in TimerIds : TimerExpire(i)
    \/ ScanAttempt
    \/ Tick

SpecLive == InitNotify /\ [][NextLive]_vars

\* the watcher thread and the main loop take their steps
SpecLiveFair ==
    /\ SpecLive
    /\ WF_vars(Dispatch)
    /\ WF_vars(StartFinish)
    /\ WF_vars(ProcessRefreshRequest)
    /\ WF_vars(\E i \in TimerIds : TimerExpire(i))
    /\ WF_vars(ScanAttempt)
    /\ WF_vars(Tick)

---------------------------------------------------------------------------
(* SpecRestart: start() is called again for the same root while the        *)
(* observer runs; every start adds a handler to the watch of the root.     *)

NextRestart ==
    \/ FsChange(P_ab, fs[P_ab])
    \/ DispatchWithin(MaxPosted + 1)
    \/ StartWithin({P_ab}, MaxHandlers + 1)
    \/ StartFinish
    \/ ProcessRefreshRequest
    \/ \E i \in TimerIds : TimerExpire(i)
    \/ ScanAttempt
    \/ Tick

SpecRestart == Init /\ [][NextRestart]_vars

\* the watcher thread and the main loop take their steps
SpecRestartFair ==
    /\ SpecRestart
    /\ WF_vars(DispatchWithin(MaxPosted + 1))
    /\ WF_vars(StartFinish)
    /\ WF_vars(ProcessRefreshRequest)
    /\ WF_vars(\E i \in TimerIds : TimerExpire(i))
    /\ WF_vars(ScanAttempt)
    /\ WF_vars(Tick)

---------------------------------------------------------------------------
(* SpecLazy: get_icon_for_path called from MaxWorkers pool threads at the  *)
(* same time, before the icon components were initialised.                 *)

NextLazy ==
    \E t \in WorkerIds :
        \/ LazyCheck(t)
        \/ LazyClear(t)
        \/ LazyFill(t)
        \/ LazyPublish(t)
        \/ LazyUse(t, [type |-> "str", text |-> P_ab])
        \/ LazyUse(t, [type |-> "str", text |-> P_ab \o <<SEP>> \o X])

SpecLazy == Init /\ [][NextLazy]_vars

---------------------------------------------------------------------------
(* SpecEvents: the handlers of the watcher thread, for file events and     *)
(* directory events, under monitored sets that change.                     *)

InitEvents ==
    /\ platform = "posix"
    /\ fs \in [Dirs -> {HasX, NotADir}]
    /\ InitProgram

NextEvents ==
    \/ \E d \in Dirs : \E new \in {HasX, NotADir} : FsChange(d, new)
    \/ Dispatch
    \/ \E paths \in SUBSET StartPaths : StartBegin(paths)
    \/ StartFinish
    \/ Stop
    \/ ProcessRefreshRequest

SpecEvents == InitEvents /\ [][NextEvents]_vars

---------------------------------------------------------------------------
(* SpecSnap: a caller that keeps the list a call returned while the        *)
(* directory changes and is reloaded.                                      *)

\* The caller keeps the list object the last call returned (update_content
\* keeps that of get_preloaded_file_list, _refresh_content that of
\* reload_drawer_content).  get_file_list returns the object of the cache
\* entry; reload_drawer_content returns the stored object after its loop and
\* a list of its own for a path that is no directory.
HoldResult ==
    /\ main.pc = "idle"
    /\ result # None
    /\ result[1].value # None
    /\ view' = [view EXCEPT !.held =
                   Some([key |-> result[1].key,
                         seen |-> result[1].value[1],
                         value |-> result[1].value[1],
                         cached |-> IF result[1].op = "get" THEN TRUE
                                    ELSE result[1].attempts > 0])]
    /\ NoSignal
    /\ NoCall
    /\ UNCHANGED <<ctl, _drawers_data, platform, fs, observer, handlers, event_queue,
                   monitored_paths, timers, _pending_refreshes, posted, main,
                   _file_cache, sinceReq, reloaded, stopped, handled, icon>>

InitSnap ==
    /\ platform = "posix"
    /\ fs \in {f \in [Dirs -> ScanStates] : f[P_abb] = NotADir}
    /\ InitProgram

NextSnap ==
    \/ \E new \in ScanStates : FsChange(P_ab, new)
    \/ \E k \in CacheKeys : UserReload(k)
    \/ ScanAttempt
    \/ \E k \in CacheKeys : GetFileList(k)
    \/ HoldResult

SpecSnap == InitSnap /\ [][NextSnap]_vars

---------------------------------------------------------------------------
(* SpecIcon: get_icon_for_path, for every outcome of the library calls.    *)

FilePng == <<"x", ".", "p", "n", "g">>
FileLnk == <<"l", ".", "l", "n", "k">>
FilePlain == <<"t">>

IconDir ==
    [is_dir |-> TRUE,
     children |-> <<[name |-> FilePng, is_dir |-> FALSE],
                    [name |-> FileLnk, is_dir |-> FALSE],
                    [name |-> FilePlain, is_dir |-> FALSE]>>]

\* the arguments of get_icon_for_path: no string, the empty string, a
\* directory, three files, a path that does not exist, a path that is neither
\* file nor directory, and garbage
IconInputs ==
    {[type |-> "NoneType", text |-> << >>], [type |-> "int", text |-> << >>]}
    \cup {[type |-> "str", text |-> t] :
            t \in { << >>, P_ab, P_ab_slash,
                    P_ab \o <<SEP>> \o FilePng,
                    P_ab \o <<SEP>> \o FileLnk,
                    P_ab \o <<SEP>> \o FilePlain,
                    P_ab \o <<SEP>> \o <<"z">>,
                    P_abb,
                    <<".", ".", SEP, SEP, "?">> }}

InitIcon ==
    /\ platform \in {"posix", "win32"}
    /\ fs = (P_ab :> IconDir) @@ (P_abb :> NotADir)
    /\ observer = "new"
    /\ handlers = [w \in Roots |-> 0]
    /\ event_queue = << >>
    /\ monitored_paths = {}
    /\ timers = [i \in TimerIds |-> NoTimer]
    /\ _pending_refreshes = << >>
    /\ posted = << >>
    /\ main = Idle
    /\ _file_cache = << >>
    /\ wd_signal = None
    /\ dm_signal = None
    /\ burst = 0
    /\ sinceReq = [w \in Roots |-> DebounceTicks]
    /\ reloaded = {}
    /\ stopped = FALSE
    /\ view = NoView
    /\ ctl = NoCtl
    /\ _drawers_data = << >>
    /\ handled = None
    /\ result = None
    /\ icon \in {[NoIcon EXCEPT !.env = e] : e \in Envs}

NextIcon ==
    \E full_path \in IconInputs : \E outcome \in InitOutcomes :
        GetIconForPath(full_path, outcome)

SpecIcon == InitIcon /\ [][NextIcon]_vars

---------------------------------------------------------------------------
(* SpecValidate: validate_path for strings and other values, over          *)
(* directories, files with and without a suffix, and paths that cannot be  *)
(* probed.                                                                 *)

FileUpper == <<"u", ".", "P", "N", "G">>
FileDot == <<".", "h">>
FileTwoDots == <<"g", ".", "b", ".", "p", "n", "g">>
P_dot == <<"/", "a", "/", "b", ".", "b">>

Denied == [is_dir |-> FALSE, children |-> << >>, err |-> TRUE]

ValidateDir ==
    [is_dir |-> TRUE,
     children |-> <<[name |-> FilePng, is_dir |-> FALSE],
                    [name |-> FileUpper, is_dir |-> FALSE],
                    [name |-> FilePlain, is_dir |-> FALSE],
                    [name |-> FileDot, is_dir |-> FALSE],
                    [name |-> FileTwoDots, is_dir |-> FALSE]>>]

HasPlain == [is_dir |-> TRUE, children |-> <<[name |-> FilePlain, is_dir |-> FALSE]>>]

ValidateInputs ==
    {[type |-> "NoneType", text |-> << >>], [type |-> "int", text |-> << >>]}
    \cup {[type |-> "str", text |-> t] :
            t \in { << >>, P_ab, P_ab_slash,
                    P_ab \o <<SEP>> \o FilePng,
                    P_ab \o <<SEP>> \o FileUpper,
                    P_ab \o <<SEP>> \o FilePlain,
                    P_ab \o <<SEP>> \o FileDot,
                    P_ab \o <<SEP>> \o FileTwoDots,
                    P_ab \o <<SEP>> \o <<"z">>,
                    P_abb,
                    P_abb \o <<SEP>> \o X,
                    P_dot,
                    P_dot \o <<SEP>> \o FilePlain }}

\* a call of validate_path(path); the caller keeps what it returned
ValidatePath(path) ==
    /\ icon' = [icon EXCEPT !.call = Some([path |-> path, info |-> validate_path(path)])]
    /\ UNCHANGED <<ctl, view, _drawers_data, platform, fs, observer, handlers, event_queue, monitored_paths,
                   timers, _pending_refreshes, posted, main, _file_cache,
                   wd_signal, dm_signal, burst, sinceReq, reloaded, stopped,
                   handled, result>>

InitValidate ==
    /\ platform \in {"posix", "win32"}
    /\ \E s1 \in {HasX, NotADir, Denied} : \E s2 \in {HasPlain, NotADir, Denied} :
          fs = (P_ab :> ValidateDir) @@ (P_abb :> s1) @@ (P_dot :> s2)
    /\ observer = "new"
    /\ handlers = [w \in Roots |-> 0]
    /\ event_queue = << >>
    /\ monitored_paths = {}
    /\ timers = [i \in TimerIds |-> NoTimer]
    /\ _pending_refreshes = << >>
    /\ posted = << >>
    /\ main = Idle
    /\ _file_cache = << >>
    /\ wd_signal = None
    /\ dm_signal = None
    /\ burst = 0
    /\ sinceReq = [w \in Roots |-> DebounceTicks]
    /\ reloaded = {}
    /\ stopped = FALSE
    /\ view = NoView
    /\ ctl = NoCtl
    /\ _drawers_data = << >>
    /\ handled = None
    /\ result = None
    /\ icon = NoIcon

NextValidate == \E path \in ValidateInputs : ValidatePath(path)

SpecValidate == InitValidate /\ [][NextValidate]_vars

---------------------------------------------------------------------------
(* SpecDrawers: the drawers of AppController, loaded from the settings     *)
(* when it is constructed and added by the user afterwards.  Its actions   *)
(* are the calls AppController makes on its DataManager.                   *)

DrawerPaths == {P_ab, P_ab_slash, P_abb}

\* the drawer lists load_settings can return
SavedDrawers ==
    {<< >>} \cup {<<p>> : p \in DrawerPaths}
    \cup {d \in DrawerPaths \X DrawerPaths : d[1] # d[2]}

\* AppController.__init__ before its last statement
Constructing == [Idle EXCEPT !.pc = "init"]

\* AppController._load_initial_data; populate_drawer_list stores each drawer
\* dict in its row
LoadInitialData(drawers) ==
    /\ main.pc = "init"
    /\ _drawers_data' = drawers
    /\ LET sizes == [i \in DOMAIN drawers |-> None]
       IN ctl' = [ctl EXCEPT !.sizes = sizes,
                             !.items = Configs(drawers, sizes),
                             !.saved = Configs(drawers, sizes)]
    /\ main' = Idle
    /\ NoSignal
    /\ NoCall
    /\ UNCHANGED <<view, platform, fs, observer, handlers, event_queue, monitored_paths,
                   timers, _pending_refreshes, posted, _file_cache, sinceReq,
                   reloaded, stopped, handled, icon>>

\* a duplicate test that rejects nothing
IsDuplicateNever(drawers, folder_path_str) == FALSE

\* is_duplicate in add_new_drawer
IsDuplicate(drawers, folder_path_str) ==
    \E i \in DOMAIN drawers : drawers[i] = folder_path_str

\* AppController.add_new_drawer: folder_path_str is what prompt_for_folder
\* returned, the empty string when the dialog was cancelled
AddNewDrawer(folder_path_str) ==
    /\ main.pc = "idle"
    /\ LET call == [op |-> "add_new_drawer", row |-> 0, path |-> folder_path_str]
       IN IF \/ folder_path_str = << >>
             \/ ~IsDir(folder_path_str)
             \/ IsDuplicate(_drawers_data, folder_path_str)
          THEN /\ dm_signal' = None
               /\ result' = None
               /\ ctl' = [ctl EXCEPT !.call = call, !.signal = None]
               /\ UNCHANGED <<_drawers_data, main, _file_cache, reloaded, view>>
          ELSE LET drawers == Append(_drawers_data, folder_path_str)
                   sizes == Append(ctl.sizes, None)
               IN /\ _drawers_data' = drawers
                  /\ ctl' = [ctl EXCEPT
                                !.sizes = sizes,
                                !.items = Append(@, Config(drawers, sizes, Len(drawers))),
                                !.saved = Configs(drawers, sizes),
                                !.call = call,
                                !.signal = None]
                  /\ BeginReload(folder_path_str, "user")
    /\ NoWatchdogSignal
    /\ UNCHANGED <<platform, fs, observer, handlers, event_queue, monitored_paths,
                   timers, _pending_refreshes, posted, sinceReq, stopped,
                   handled, icon>>

InitDrawers ==
    /\ platform = "posix"
    /\ fs \in [Dirs -> {HasX, NotADir}]
    /\ observer = "new"
    /\ handlers = [w \in Roots |-> 0]
    /\ event_queue = << >>
    /\ monitored_paths = {}
    /\ timers = [i \in TimerIds |-> NoTimer]
    /\ _pending_refreshes = << >>
    /\ posted = << >>
    /\ main = Constructing
    /\ _file_cache = << >>
    /\ wd_signal = None
    /\ dm_signal = None
    /\ burst = 0
    /\ sinceReq = [w \in Roots |-> DebounceTicks]
    /\ reloaded = {}
    /\ stopped = FALSE
    /\ view = NoView
    /\ ctl = NoCtl
    /\ handled = None
    /\ result = None
    /\ icon = NoIcon
    /\ _drawers_data = << >>

NextDrawers ==
    \/ \E drawers \in SavedDrawers : LoadInitialData(drawers)
    \/ \E folder_path_str \in DrawerPaths \cup {<< >>} : AddNewDrawer(folder_path_str)
    \/ ScanAttempt
    \/ \E d \in Dirs : \E new \in {HasX, NotADir} : FsChange(d, new)

SpecDrawers == InitDrawers /\ [][NextDrawers]_vars

---------------------------------------------------------------------------
(* SpecController: the user adds drawers, clicks rows of the drawer list,  *)
(* moves the mouse off the list and closes the content view, while the     *)
(* folder of a drawer may disappear.                                       *)

\* a second folder named "b"
P_b == <<"/", "b">>

ControllerDirs == {P_ab, P_b, P_abb}

\* the drawer lists load_settings can return
ControllerSaved == {<< >>, <<P_ab>>}

\* the index of the first config of _drawers_data with the name, 0 for none
FirstNamed(drawers, drawer_name) ==
    LET found == {i \in DOMAIN drawers : PathName(drawers[i]) = drawer_name}
    IN IF found = {} THEN 0 ELSE CHOOSE i \in found : \A j \in found : i <= j

\* AppController.update_drawer_size; the dict it changes is the one
\* _locked_item_data refers to when that is the config of the name
UpdateDrawerSize(c, drawers, drawer_name, new_size) ==
    LET k == FirstNamed(drawers, drawer_name)
    IN IF k = 0 \/ c.sizes[k] = Some(new_size) THEN c
       ELSE LET sizes == [c.sizes EXCEPT ![k] = Some(new_size)]
            IN [c EXCEPT !.sizes = sizes,
                         !.saved = Configs(drawers, sizes),
                         !._locked_item_data =
                             IF @ = Some(Config(drawers, c.sizes, k))
                             THEN Some(Config(drawers, sizes, k)) ELSE @]

\* an unlock that keeps the item data
UnlockedKeepsData(c) == [c EXCEPT !._locked = FALSE]

\* self._locked = False; self._locked_item_data = None
Unlocked(c) == [c EXCEPT !._locked = FALSE, !._locked_item_data = None]

\* the size update both handlers make for the locked drawer
SaveLockedSize(c, drawers, content_size) ==
    IF c._locked_item_data # None /\ c._locked_item_data[1].name # << >>
    THEN UpdateDrawerSize(c, drawers, c._locked_item_data[1].name, content_size)
    ELSE c

Hide == [sig |-> "hideDrawerContent", data |-> None, size |-> None]

Show(drawer_data, target_content_size) ==
    [sig |-> "showDrawerContent", data |-> Some(drawer_data),
     size |-> Some(target_content_size)]

\* target_content_size: the "size" of the dict, or the default
TargetSize(drawer_data) ==
    IF drawer_data.size = None THEN DefaultSize ELSE drawer_data.size[1]

\* AppController.handle_item_selected for the item in `row'; content_size is
\* what get_drawer_content_size() returns
HandleItemSelected(row, content_size) ==
    /\ main.pc = "idle"
    /\ row \in DOMAIN ctl.items
    /\ LET drawer_data == ctl.items[row]
           call == [op |-> "handle_item_selected", row |-> row,
                    path |-> drawer_data.path]
           k == IF drawer_data.name = << >> THEN 0
                ELSE FirstNamed(_drawers_data, drawer_data.name)
           stored == IF k = 0 THEN ctl
                     ELSE [ctl EXCEPT !.items[row] =
                                          Config(_drawers_data, ctl.sizes, k)]
           current(c) == IF k = 0 THEN drawer_data
                         ELSE Config(_drawers_data, c.sizes, k)
           target_content_size == TargetSize(current(ctl))
       IN IF drawer_data.path = << >> \/ ~IsDir(drawer_data.path)
          THEN ctl' = [ctl EXCEPT !.call = call, !.signal = None]
          ELSE IF ctl._locked
          THEN IF Some(current(ctl)) = ctl._locked_item_data
               THEN ctl' = [Unlocked(stored) EXCEPT !.call = call,
                                                    !.signal = Some(Hide)]
               ELSE LET saved == SaveLockedSize(stored, _drawers_data, content_size)
                    IN ctl' = [saved EXCEPT
                                  !._locked_item_data = Some(current(saved)),
                                  !.call = call,
                                  !.signal = Some(Show(current(saved),
                                                       target_content_size))]
          ELSE ctl' = [stored EXCEPT
                          !._locked = TRUE,
                          !._locked_item_data = Some(current(stored)),
                          !.call = call,
                          !.signal = Some(Show(current(stored),
                                               target_content_size))]
    /\ NoSignal
    /\ NoCall
    /\ UNCHANGED <<view, _drawers_data, platform, fs, observer, handlers, event_queue,
                   monitored_paths, timers, _pending_refreshes, posted, main,
                   _file_cache, sinceReq, reloaded, stopped, handled, icon>>

\* AppController.handle_selection_cleared
HandleSelectionCleared ==
    /\ main.pc = "idle"
    /\ ctl' = [ctl EXCEPT
                  !.call = [op |-> "handle_selection_cleared", row |-> 0,
                            path |-> << >>],
                  !.signal = IF ~ctl._locked THEN Some(Hide) ELSE None]
    /\ NoSignal
    /\ NoCall
    /\ UNCHANGED <<view, _drawers_data, platform, fs, observer, handlers, event_queue,
                   monitored_paths, timers, _pending_refreshes, posted, main,
                   _file_cache, sinceReq, reloaded, stopped, handled, icon>>

\* AppController.handle_content_close_requested
HandleContentCloseRequested(content_size) ==
    /\ main.pc = "idle"
    /\ LET saved == IF ctl._locked
                    THEN SaveLockedSize(ctl, _drawers_data, content_size)
                    ELSE ctl
       IN ctl' = [Unlocked(saved) EXCEPT
                     !.call = [op |-> "handle_content_close_requested",
                               row |-> 0, path |-> << >>],
                     !.signal = Some(Hide)]
    /\ NoSignal
    /\ NoCall
    /\ UNCHANGED <<view, _drawers_data, platform, fs, observer, handlers, event_queue,
                   monitored_paths, timers, _pending_refreshes, posted, main,
                   _file_cache, sinceReq, reloaded, stopped, handled, icon>>

InitController ==
    /\ platform = "posix"
    /\ fs = [d \in ControllerDirs |-> HasX]
    /\ observer = "new"
    /\ handlers = [w \in Roots |-> 0]
    /\ event_queue = << >>
    /\ monitored_paths = {}
    /\ timers = [i \in TimerIds |-> NoTimer]
    /\ _pending_refreshes = << >>
    /\ posted = << >>
    /\ main = Constructing
    /\ _file_cache = << >>
    /\ wd_signal = None
    /\ dm_signal = None
    /\ burst = 0
    /\ sinceReq = [w \in Roots |-> DebounceTicks]
    /\ reloaded = {}
    /\ stopped = FALSE
    /\ view = NoView
    /\ ctl = NoCtl
    /\ handled = None
    /\ result = None
    /\ icon = NoIcon
    /\ _drawers_data = << >>

NextController ==
    \/ \E drawers \in ControllerSaved : LoadInitialData(drawers)
    \/ \E folder_path_str \in ControllerDirs \cup {<< >>} : AddNewDrawer(folder_path_str)
    \/ ScanAttempt
    \/ \E row \in 1..Cardinality(ControllerDirs) : \E content_size \in ContentSizes :
          HandleItemSelected(row, content_size)
    \/ HandleSelectionCleared
    \/ \E content_size \in ContentSizes : HandleContentCloseRequested(content_size)
    \/ \E new \in {HasX, NotADir} : FsChange(P_b, new)

SpecController == InitController /\ [][NextController]_vars

---------------------------------------------------------------------------
(* SpecSettings: SettingsManager.load_settings, for a settings file that   *)
(* is missing, cannot be opened or decoded, holds no JSON, holds JSON the  *)
(* model rejects, or holds valid settings.                                 *)

\* SETTINGS_FILE, a path relative to the working directory
SETTINGS_FILE == <<"d", "r", "a", "w", "e", "r", "s", "-", "s", "e", "t", "t", "i", "n", "g",
                   "s", ".", "j", "s", "o", "n">>

\* SettingsManager.DEFAULT_BG_COLOR_HSLA, the alpha in tenths
DEFAULT_BG_COLOR_HSLA == <<0, 0, 10, 8>>

\* a colour the user has chosen
CustomColor == <<200, 50, 50, 5>>

\* SettingsModel(): the defaults of the pydantic model
SettingsModel ==
    [drawers |-> << >>,
     window_position |-> None,
     background_color_hsla |-> DEFAULT_BG_COLOR_HSLA,
     start_with_windows |-> FALSE,
     default_icon_folder_path |-> "asset/icons/folder_icon.png",
     default_icon_file_theme |-> "text-x-generic",
     default_icon_unknown_theme |-> "unknown",
     thumbnail_size |-> "64x64"]

\* the drawers a settings file can list: [name, path, size]
FileDrawers ==
    {<< >>} \cup {<<[name |-> <<"b">>, path |-> P_ab, size |-> size]>> :
                     size \in {None, Some("800x600")}}

\* the settings a valid file can hold
ValidSettings ==
    {[SettingsModel EXCEPT !.drawers = drawers,
                           !.window_position = window_position,
                           !.background_color_hsla = background_color_hsla,
                           !.start_with_windows = start_with_windows] :
        drawers \in FileDrawers,
        window_position \in {None, Some("10,20")},
        background_color_hsla \in {DEFAULT_BG_COLOR_HSLA, CustomColor},
        start_with_windows \in BOOLEAN}

\* no settings file: the first run of the program
NoSettingsFile == [kind |-> "missing", settings |-> SettingsModel]

\* the states of the settings file
SettingsFiles ==
    {[kind |-> kind, settings |-> SettingsModel] :
        kind \in {"missing", "unreadable", "undecodable", "no_json", "rejected"}}
    \cup {[kind |-> "valid", settings |-> settings] : settings \in ValidSettings}

\* the try block of load_settings: a missing file gives the defaults;
\* OSError, JSONDecodeError and ValidationError are caught and give the
\* defaults; the UnicodeDecodeError of f.read() is not caught
ReadSettings(file) ==
    CASE file.kind = "valid" -> [raised |-> "", settings |-> file.settings]
      [] file.kind = "undecodable" ->
             [raised |-> "UnicodeDecodeError", settings |-> SettingsModel]
      [] OTHER -> [raised |-> "", settings |-> SettingsModel]

\* Path.exists
Exists(path) == normpath(path) \in DOMAIN fs

\* the loop over settings.drawers: a drawer whose path does not exist is skipped
AppDrawers(drawers) ==
    LET kept == SelectSeq(drawers, LAMBDA d : Exists(d.path))
    IN [i \in DOMAIN kept |-> [name |-> kept[i].name,
                               path |-> kept[i].path,
                               size |-> kept[i].size]]

\* the local variables bound when the return statement is reached: the
\* statements after app_window_position = QPoint(...) are indented under
\* `if settings.window_position:'
Locals(settings) ==
    [app_drawers |-> AppDrawers(settings.drawers),
     app_window_position |-> settings.window_position]
    @@ IF settings.window_position # None
       THEN [app_bg_color_css |-> settings.background_color_hsla,
             app_start_with_windows |-> settings.start_with_windows,
             app_icon_folder_path |-> settings.default_icon_folder_path,
             app_icon_file_theme |-> settings.default_icon_file_theme,
             app_icon_unknown_theme |-> settings.default_icon_unknown_theme,
             app_thumbnail_size |-> settings.thumbnail_size]
       ELSE << >>

\* the names the return statement reads
Returned ==
    <<"app_drawers", "app_window_position", "app_bg_color_css",
      "app_start_with_windows", "app_icon_folder_path", "app_icon_file_theme",
      "app_icon_unknown_theme", "app_thumbnail_size">>

\* SettingsManager.load_settings
load_settings(file) ==
    LET read == ReadSettings(file)
        locals == Locals(read.settings)
    IN IF read.raised # ""
       THEN [op |-> "load_settings", raised |-> read.raised, value |-> None]
       ELSE IF \E i \in DOMAIN Returned : Returned[i] \notin DOMAIN locals
       THEN [op |-> "load_settings", raised |-> "UnboundLocalError", value |-> None]
       ELSE [op |-> "load_settings", raised |-> "",
             value |-> Some([i \in DOMAIN Returned |-> locals[Returned[i]]])]

\* a call of load_settings
LoadSettings ==
    /\ result' = Some(load_settings(fs[SETTINGS_FILE]))
    /\ NoSignal
    /\ UNCHANGED <<ctl, view, _drawers_data, platform, fs, observer, handlers, event_queue,
                   monitored_paths, timers, _pending_refreshes, posted, main,
                   _file_cache, sinceReq, reloaded, stopped, handled, icon>>

\* the settings file is written, removed or damaged
WriteSettingsFile(file) ==
    /\ file # fs[SETTINGS_FILE]
    /\ fs' = [fs EXCEPT ![SETTINGS_FILE] = file]
    /\ NoSignal
    /\ NoCall
    /\ UNCHANGED <<ctl, view, _drawers_data, platform, observer, handlers, event_queue,
                   monitored_paths, timers, _pending_refreshes, posted, main,
                   _file_cache, sinceReq, reloaded, stopped, handled, icon>>

\* the folder of the saved drawer is removed or created
ToggleFolder ==
    /\ fs' = IF P_ab \in DOMAIN fs
             THEN [p \in DOMAIN fs \ {P_ab} |-> fs[p]]
             ELSE (P_ab :> HasX) @@ fs
    /\ NoSignal
    /\ NoCall
    /\ UNCHANGED <<ctl, view, _drawers_data, platform, observer, handlers, event_queue,
                   monitored_paths, timers, _pending_refreshes, posted, main,
                   _file_cache, sinceReq, reloaded, stopped, handled, icon>>

InitSettings ==
    /\ platform = "posix"
    /\ fs = (SETTINGS_FILE :> NoSettingsFile) @@ (P_ab :> HasX)
    /\ observer = "new"
    /\ handlers = [w \in Roots |-> 0]
    /\ event_queue = << >>
    /\ monitored_paths = {}
    /\ timers = [i \in TimerIds |-> NoTimer]
    /\ _pending_refreshes = << >>
    /\ posted = << >>
    /\ main = Constructing
    /\ _file_cache = << >>
    /\ wd_signal = None
    /\ dm_signal = None
    /\ burst = 0
    /\ sinceReq = [w \in Roots |-> DebounceTicks]
    /\ reloaded = {}
    /\ stopped = FALSE
    /\ view = NoView
    /\ ctl = NoCtl
    /\ handled = None
    /\ result = None
    /\ icon = NoIcon
    /\ _drawers_data = << >>

NextSettings ==
    \/ LoadSettings
    \/ \E file \in SettingsFiles : WriteSettingsFile(file)
    \/ ToggleFolder

SpecSettings == InitSettings /\ [][NextSettings]_vars

---------------------------------------------------------------------------
(* SpecOverride: get_icon_for_path when icons for extensions are put into  *)
(* DEFAULT_ICONS, the table get_icon_for_extension reads.  No library call *)
(* raises here.                                                            *)

\* DEFAULT_ICONS[extension] = QIcon(...), as _initialize_default_icons
\* foresees for extension-specific icons
ConfigureOverride(extension) ==
    /\ icon._initialized
    /\ icon._icon_dispatcher
    /\ extension \notin DOMAIN icon.DEFAULT_ICONS
    /\ icon' = [icon EXCEPT !.DEFAULT_ICONS = (extension :> QIcon("override")) @@ @,
                            !.call = None]
    /\ NoSignal
    /\ NoCall
    /\ UNCHANGED <<ctl, view, _drawers_data, platform, fs, observer, handlers, event_queue, monitored_paths,
                   timers, _pending_refreshes, posted, main, _file_cache, sinceReq,
                   reloaded, stopped, handled>>

InitOverride ==
    /\ InitIcon
    /\ icon.env.has_lnkparse
    /\ \A f \in {"thumb", "lnk", "qt", "direct"} : icon.env[f] # "raise"

NextOverride ==
    \/ NextIcon
    \/ \E extension \in {ExtPng, ExtLnk} : ConfigureOverride(extension)

SpecOverride == InitOverride /\ [][NextOverride]_vars

---------------------------------------------------------------------------
(* Properties of the debounce timers and the notification chain (Spec).    *)

ActiveTimers(r) == {i \in TimerIds : timers[i].active /\ timers[i].root = Some(r)}

\* C1: a burst of refresh requests for one root is coalesced into one
\* directoryChanged(root): the signal is emitted only for a root that is in
\* _pending_refreshes, only once the debounce interval has passed since the
\* last request for it, and the emission removes the entry; a request for a
\* pending root restarts its one timer instead of emitting; an entry leaves
\* _pending_refreshes only by that emission or by start()/stop().
C1_DebounceCoalescing ==
    [][\A r \in WatchDirs :
          /\ wd_signal' = Some(r) =>
                /\ r \in DOMAIN _pending_refreshes
                /\ r \notin DOMAIN _pending_refreshes'
                /\ sinceReq[r] = DebounceTicks
                /\ burst' >= 1
          /\ (r \in DOMAIN _pending_refreshes /\ r \notin DOMAIN _pending_refreshes') =>
                \/ wd_signal' = Some(r)
                \/ Stop
                \/ \E paths \in SUBSET StartPaths : StartBegin(paths)
          /\ (r \in DOMAIN _pending_refreshes /\ ProcessRefreshRequest /\ Head(posted) = r) =>
                /\ wd_signal' = None
                /\ _pending_refreshes' = _pending_refreshes
                /\ timers'[_pending_refreshes[r]].rem = DebounceTicks
          /\ r \in DOMAIN _pending_refreshes' =>
                ActiveTimers(r)' = {_pending_refreshes'[r]}
      ]_vars

\* a burst of two requests for one root has just produced its one emission
C1_Witness ==
    \E r \in WatchDirs :
        /\ wd_signal = Some(r)
        /\ burst = 2
        /\ r \notin DOMAIN _pending_refreshes

\* C2: once stop() has returned, no directoryChanged is emitted and no
\* watcher-driven reload runs until start() is called again.
C2_NoLateNotification ==
    stopped =>
        /\ wd_signal = None
        /\ dm_signal = None
        /\ ~(main.pc = "reload" /\ main.cause = "watch")

\* C6: the roots are debounced independently: a request for root A leaves the
\* timer and the pending entry of every other root B as they are, and the
\* handling of A's notification never postpones the notification B is due:
\* no timer of another root runs out while the reload of A sleeps.
C6_IndependentRoots ==
    [][/\ (ProcessRefreshRequest /\ posted # << >>) =>
              \A b \in DOMAIN _pending_refreshes \ {Head(posted)} :
                  /\ b \in DOMAIN _pending_refreshes'
                  /\ _pending_refreshes'[b] = _pending_refreshes[b]
                  /\ timers'[_pending_refreshes[b]] = timers[_pending_refreshes[b]]
       /\ (ScanAttempt /\ main.cause = "watch") =>
              \A b \in DOMAIN _pending_refreshes \ {main.key} :
                  timers[_pending_refreshes[b]].rem >= SleepTicks
      ]_vars

---------------------------------------------------------------------------
(* Properties of the file cache (SpecCache).                               *)

\* what a listing of drawer_path yields in the current state
Fresh(drawer_path) == IF IsDir(drawer_path) THEN ListDir(drawer_path) ELSE << >>

\* C3: when DataManager emits its public directoryChanged(path), the cache
\* already holds for that path the list the reload behind the signal built:
\* a slot calling get_file_list(path) sees the new list.
C3_CacheBeforeSignal ==
    \A p \in AllKeys :
        dm_signal = Some(p) =>
            /\ get_file_list(p) = Some(Fresh(p))
            /\ result # None
            /\ result[1].op = "reload"
            /\ result[1].key = p
            /\ result[1].value = Some(Fresh(p))

\* the public signal for /a/b follows a reload that replaced an older list,
\* which the other spelling of the key still holds
C3_Witness ==
    /\ dm_signal = Some(P_ab)
    /\ Len(_file_cache[P_ab]) = 2
    /\ P_ab_slash \in DOMAIN _file_cache
    /\ Len(_file_cache[P_ab_slash]) = 1

\* C4: the list reload_drawer_content(p) returns is the one
\* get_file_list(p) returns right after it.
C4_ReloadThenGet ==
    \A k \in AllKeys :
        \A v \in {result} :
            (v # None /\ v[1].op = "reload" /\ v[1].key = k) =>
                get_file_list(k) = v[1].value

\* a reload under the spelling /a/b/ has returned a list of two entries
C4_Witness ==
    /\ result # None
    /\ result[1].op = "reload"
    /\ result[1].key = P_ab_slash
    /\ Len(result[1].value[1]) = 2

\* C5: get_file_list(k) is None exactly when no reload of the key k has
\* completed; a reload that found the path empty or no directory leaves the
\* empty list, not None.
C5_NoneIffNeverLoaded ==
    \A k \in AllKeys :
        /\ get_file_list(k) = None <=> k \notin reloaded
        /\ (result # None /\ result[1].op = "reload" /\ result[1].key = k
              /\ Fresh(k) = << >>) =>
                get_file_list(k) = Some(<< >>)

\* a reload of /a/b/ found nothing and left the empty list, while the key
\* /a/b was never loaded
C5_Witness ==
    /\ result # None
    /\ result[1].op = "reload"
    /\ result[1].key = P_ab_slash
    /\ result[1].value = Some(<< >>)
    /\ get_file_list(P_ab_slash) = Some(<< >>)
    /\ get_file_list(P_ab) = None

\* C9: the cache changes only in the step in which a reload returns, and
\* then only at the reloaded key; get_file_list, start() and stop() leave it
\* as it is.
C9_SingleWritePath ==
    [][/\ _file_cache' # _file_cache =>
              /\ result' # None
              /\ result'[1].op = "reload"
              /\ \A k \in DOMAIN _file_cache \ {result'[1].key} :
                     /\ k \in DOMAIN _file_cache'
                     /\ _file_cache'[k] = _file_cache[k]
              /\ DOMAIN _file_cache' \subseteq DOMAIN _file_cache \cup {result'[1].key}
       /\ (\E k \in CacheKeys : GetFileList(k)) =>
              _file_cache' = _file_cache /\ main' = main
       /\ (Stop \/ StartFinish \/ \E paths \in SUBSET StartPaths : StartBegin(paths)) =>
              _file_cache' = _file_cache
      ]_vars

\* a second start() has left /a/b out of the monitored set and its cache
\* entry is still there
C9_Witness ==
    /\ observer = "alive"
    /\ ~stopped
    /\ main.pc = "idle"
    /\ monitored_paths = {}
    /\ P_ab \in DOMAIN _file_cache
    /\ _file_cache[P_ab] # << >>

\* C10: a key that get_file_list answers with a list is never answered with
\* None again.
C10_Monotone ==
    [][\A k \in AllKeys :
          get_file_list(k) # None => get_file_list(k)' # None]_vars

\* a reload found /a/b no longer a directory and left the empty list under a
\* key that is in the cache, the other spelling still holding the old list
C10_Witness ==
    /\ result # None
    /\ result[1].op = "reload"
    /\ result[1].key = P_ab
    /\ result[1].value = Some(<< >>)
    /\ ~IsDir(P_ab)
    /\ get_file_list(P_ab) = Some(<< >>)
    /\ P_ab_slash \in DOMAIN _file_cache
    /\ _file_cache[P_ab_slash] # << >>

---------------------------------------------------------------------------
(* Properties of the matching of events (SpecMatch).                       *)

\* C7: _handle_event matches the event path e to the monitored root r only
\* when the normalized e equals r or lies inside directory r, so that a path
\* which only shares a string prefix with r is not matched to it; and an
\* event for a file inside r, and inside no other monitored root, is matched
\* to r.
C7_PrefixExact ==
    handled # None =>
        LET h == handled[1]
            e == NormRoot(h.path)
        IN \A r \in h.roots :
              /\ h.root = Some(r) => Within(e, r)
              /\ (StartsWith(e, r) /\ ~Within(e, r)) => h.root # Some(r)
              /\ (/\ Within(e, r)
                  /\ e # r
                  /\ \A q \in h.roots \ {r} : ~Within(e, q)) => h.root = Some(r)

---------------------------------------------------------------------------
(* Properties of the icon pipeline (SpecIcon).                             *)

\* the environment in which every raising call returns the null icon instead
Quiet(env) ==
    [env EXCEPT !.thumb = IF @ = "raise" THEN "null" ELSE @,
                !.lnk = IF @ = "raise" THEN "null" ELSE @,
                !.qt = IF @ = "raise" THEN "null" ELSE @,
                !.direct = IF @ = "raise" THEN "null" ELSE @]

\* C8: get_icon_for_path returns an icon and never raises, for every input
\* and also after a failed initialisation; without a dispatcher or a valid
\* path the icon is the unknown icon; a strategy that raises has the effect of
\* one that finds no icon: the pipeline goes on to the next strategy.
C8_IconTotality ==
    icon.call # None =>
        LET c == icon.call[1]
            unknown == icon._unknown_icon[1]
        IN /\ ~c.raised
           /\ c.value # None
           /\ c.value[1].null => c.value[1] = unknown
           /\ (~icon._icon_dispatcher \/ validate_path(c.path) = None) =>
                  c.value[1] = unknown
           /\ c.value = get_icon_for_path(c.path, icon, Quiet(icon.env)).value

\* for an image file the thumbnail and the native provider raised and the
\* pipeline went on to the icon loaded from the file itself
C8_Witness ==
    /\ icon.call # None
    /\ icon.call[1].path.text = P_ab \o <<SEP>> \o FilePng
    /\ icon.env.thumb = "raise"
    /\ icon.env.qt = "raise"
    /\ ~icon.call[1].raised
    /\ icon.call[1].value = Some(QIcon("direct"))

---------------------------------------------------------------------------
(* Properties of start() and stop().                                       *)

\* the timer objects that exist for root r
TimersOf(r) == {i \in TimerIds : timers[i].root = Some(r)}

\* C11: in every reachable state there is at most one timer per root: a
\* request for a pending root makes no second timer, every active timer is
\* the one _pending_refreshes records for its root, and no two roots share a
\* timer.
C11_OneTimerPerRoot ==
    /\ \A r \in Roots : Cardinality(TimersOf(r)) <= 1
    /\ \A i \in TimerIds :
          timers[i].active =>
              /\ timers[i].root # None
              /\ timers[i].root[1] \in DOMAIN _pending_refreshes
              /\ _pending_refreshes[timers[i].root[1]] = i
    /\ \A r \in DOMAIN _pending_refreshes :
          timers[_pending_refreshes[r]].root = Some(r)

\* two roots are pending, each with its own timer, one of them restarted by
\* a second request
C11_Witness ==
    /\ DOMAIN _pending_refreshes = {P_ab, P_abb}
    /\ _pending_refreshes[P_ab] # _pending_refreshes[P_abb]
    /\ timers[_pending_refreshes[P_ab]].starts = 2
    /\ timers[_pending_refreshes[P_ab]].active
    /\ timers[_pending_refreshes[P_abb]].active

\* C12: start(paths) replaces the watched set: when it returns,
\* monitored_paths holds exactly the normalized forms of the given paths that
\* are directories and were scheduled; a path that is no directory, or whose
\* scheduling raises, is left out while the others are scheduled; nothing of
\* the previous set remains unless it was given again.
C12_StartReplaces ==
    [][(main.pc = "start" /\ main'.pc = "idle") =>
          /\ \A w \in monitored_paths' :
                /\ \E p \in main.paths : w = NormRoot(p)
                /\ IsDir(w)
                /\ handlers'[w] = handlers[w] + 1
          /\ \A w \in Roots \ monitored_paths' : handlers'[w] = handlers[w]
          /\ \E raising \in SUBSET main.paths :
                monitored_paths' =
                    {NormRoot(p) : p \in {q \in main.paths \ raising :
                                             IsDir(NormRoot(q))}}
      ]_vars

\* the file system root was scheduled by an earlier start(); the last start()
\* left it out and kept /a/b, while /a/bb, no directory or raising, is out
C12_Witness ==
    /\ main.pc = "idle"
    /\ observer = "alive"
    /\ ~stopped
    /\ handlers[P_root] = 1
    /\ handlers[P_abb] = 0
    /\ monitored_paths = {P_ab}

---------------------------------------------------------------------------
(* Properties of the scan of reload_drawer_content (SpecCache).            *)

\* C14: a reload of a directory makes k listing attempts, 1 <= k <= 5: an
\* attempt whose listing is empty is followed by another one unless it was
\* the fifth, and the first non-empty listing, or else the fifth, empty, one
\* ends the scan and is its result.
C14_BoundedRetry ==
    [][ScanAttempt =>
          /\ main.attempt + 1 \in 1..max_attempts
          /\ IF Fresh(main.key) # << >> \/ main.attempt + 1 = max_attempts
             THEN /\ main'.pc = "idle"
                  /\ result' # None
                  /\ result'[1].op = "reload"
                  /\ result'[1].key = main.key
                  /\ result'[1].value = Some(Fresh(main.key))
                  /\ result'[1].attempts = main.attempt + 1
             ELSE /\ main'.pc = "reload"
                  /\ main'.attempt = main.attempt + 1
                  /\ main'.key = main.key
                  /\ result' = None
                  /\ _file_cache' = _file_cache
      ]_vars

\* a reload has returned the listing of its third attempt, the first that
\* was not empty
C14_Witness ==
    /\ result # None
    /\ result[1].op = "reload"
    /\ result[1].attempts = 3
    /\ result[1].value # Some(<< >>)

\* C15: when one child cannot be read during a scan only that entry is
\* skipped and the entries read in the same listing are the result; when the
\* listing of the directory itself fails the scan ends at once, without
\* another attempt, with the empty list.
C15_ScanErrors ==
    [][ScanAttempt =>
          IF ~IsDir(main.key)
          THEN /\ main'.pc = "idle"
               /\ result' # None
               /\ result'[1].value = Some(<< >>)
          ELSE (\E i \in DOMAIN fs[normpath(main.key)].children :
                    Unreadable(fs[normpath(main.key)].children[i])) =>
                  /\ result' # None
                  /\ result'[1].value = Some(ReadableEntries(main.key))
      ]_vars

\* C16: a refresh that fails, because the path is no longer a directory or
\* the scan raises, keeps the content cached for the root: the entry is not
\* replaced by the empty list.
C16_FailedRefreshKeeps ==
    [][\A k \in DOMAIN _file_cache :
          (/\ result' # None
           /\ result'[1].op = "reload"
           /\ result'[1].key = k
           /\ Listing(k) = << >>
           /\ (~IsDir(k) \/ Fresh(k) # << >>)) =>
              _file_cache'[k] = _file_cache[k]
      ]_vars

---------------------------------------------------------------------------
(* Properties of the order of the icon strategies (SpecIcon).              *)

\* C17: for every path validated as a directory the pipeline returns the
\* configured folder icon, whatever the other strategies yield.
C17_DirectoryTerminal ==
    icon.call # None =>
        LET c == icon.call[1]
            info == validate_path(c.path)
        IN (/\ icon._icon_dispatcher
            /\ info # None
            /\ info[1].path_type = "directory") =>
               c.value = Some(get_folder_icon(icon.DEFAULT_ICONS))

\* the icon of the first strategy that succeeds for a file, in the order
\* extension override, thumbnail, shortcut, native provider, direct load,
\* generic file icon
FirstInOrder(info, defaults, env) ==
    IF info.extension # None /\ info.extension[1] \in DOMAIN defaults
    THEN defaults[info.extension[1]]
    ELSE IF can_handle(info) /\ env.thumb = "icon" THEN QIcon("thumbnail")
    ELSE IF /\ platform = "win32"
            /\ info.extension = Some(ExtLnk)
            /\ env.has_lnkparse
            /\ env.lnk = "icon"
    THEN QIcon("lnk")
    ELSE IF env.qt = "icon" THEN QIcon("native")
    ELSE IF env.direct = "icon" THEN QIcon("direct")
    ELSE get_file_icon(defaults)

BaseName(t) ==
    LET seps == {i \in DOMAIN t : t[i] = SEP}
    IN IF seps = {} THEN t
       ELSE SubSeq(t, 1 + (CHOOSE i \in seps : \A j \in seps : j <= i), Len(t))

\* e is the suffix of the name of t in lower case: the text from the last dot
\* of the name on, when a character other than a dot precedes that dot, and
\* the empty string for a name without such a dot
IsLowerSuffix(e, t) ==
    LET name == BaseName(t)
        off == Len(name) - Len(e)
    IN /\ off >= 0
       /\ \A i \in DOMAIN e : e[i] = Lower(name[off + i])
       /\ \A i \in DOMAIN e : (name[off + i] = ".") <=> (i = 1)
       /\ e # << >> => \E j \in 1..off : name[j] # "."
       /\ e = << >> =>
             \A i \in DOMAIN name : name[i] = "." => \A j \in 1..(i - 1) : name[j] = "."

\* C19: validate_path yields Invalid for every value that is not a non-empty
\* string and for every path that is neither an existing directory nor an
\* existing regular file, a path whose probe fails included; for a directory
\* it yields path_type directory and no extension; for a regular file it
\* yields path_type file and the suffix of the name in lower case with its
\* dot, or the empty string when the name has no suffix.  Every call returns.
C19_ValidateClassifies ==
    icon.call # None =>
        LET path == icon.call[1].path
            info == icon.call[1].info
            d == normpath(path.text)
            string == path.type = "str" /\ path.text # << >>
            isdir == string /\ d \in DOMAIN fs /\ fs[d].is_dir
            isfile == string /\ IsFile(path.text)
        IN /\ (~string \/ (~isdir /\ ~isfile)) => info = None
           /\ (string /\ d \in DOMAIN fs /\ fs[d] = Denied) => info = None
           /\ isdir =>
                 /\ info # None
                 /\ info[1].full_path = path.text
                 /\ info[1].path_type = "directory"
                 /\ info[1].extension = None
           /\ isfile =>
                 /\ info # None
                 /\ info[1].full_path = path.text
                 /\ info[1].path_type = "file"
                 /\ info[1].extension # None
                 /\ IsLowerSuffix(info[1].extension[1], path.text)

\* a file whose suffix is in upper case was validated
C19_Witness ==
    /\ icon.call # None
    /\ icon.call[1].path.text = P_ab \o <<SEP>> \o FileUpper
    /\ icon.call[1].info # None
    /\ icon.call[1].info[1].extension = Some(ExtPng)

\* C20: every drawer path loaded at startup by _load_initial_data and every
\* path added by a successful add_new_drawer is a monitored root once the
\* operation is over: its normalized form is in monitored_paths.
C20_DrawersMonitored ==
    main.pc = "idle" =>
        \A i \in DOMAIN _drawers_data :
            NormRoot(_drawers_data[i]) \in monitored_paths

\* C21: every directoryChanged(root) DataManager emits for the folder the
\* content widget shows is eventually followed by update_with_file_list for
\* that folder.
C21_ChangeReachesView ==
    (dm_signal # None /\ dm_signal[1] = view.current_folder) ~> ~view.stale

\* C22: when the timer of root r expires its entry has left
\* _pending_refreshes before directoryChanged(r) is emitted and stays out
\* while the notification is handled; the emission uses up the expired
\* timer, which is not active afterwards; and a refresh request for r that
\* is processed next finds no entry and starts a timer of its own with the
\* full delay.
C22_ExpiryOrder ==
    /\ [](/\ wd_signal # None => wd_signal[1] \notin DOMAIN _pending_refreshes
          /\ (main.pc = "reload" /\ main.cause = "watch") =>
                main.key \notin DOMAIN _pending_refreshes)
    /\ [][/\ wd_signal' # None =>
                \E i \in TimerIds :
                    /\ timers[i].active /\ timers[i].rem = 0
                    /\ timers[i].root = wd_signal'
                    /\ ~timers'[i].active
          /\ (dm_signal # None /\ posted # << >> /\ posted' = Tail(posted)
                /\ Head(posted) = dm_signal[1]) =>
                LET r == Head(posted)
                IN /\ r \in DOMAIN _pending_refreshes'
                   /\ timers'[_pending_refreshes'[r]] =
                         [root |-> Some(r), active |-> TRUE,
                          rem |-> DebounceTicks, starts |-> 1]]_vars

\* a refresh request for the root arrived while its notification is handled
C22_Witness ==
    /\ main.pc = "reload"
    /\ main.cause = "watch"
    /\ posted = <<main.key>>

\* the normalized path is the root or lies below it
PrefixMatch(event_path, root) ==
    LET n == NormRoot(event_path)
    IN /\ Len(root) <= Len(n)
       /\ \A i \in DOMAIN root : n[i] = root[i]
       /\ Len(n) > Len(root) => n[Len(root) + 1] = SEP

\* C23: a directory-level event produces no refresh request; a file-level
\* event produces, per handler that receives it, at most one request, which
\* is addressed to a root of the current monitored set that prefix-matches
\* the event; an event that matches no monitored root produces none.  No
\* other step adds a request.
C23_EventMapping ==
    [][\/ posted' = posted
       \/ posted # << >> /\ posted' = Tail(posted)
       \/ /\ event_queue # << >>
          /\ event_queue' = Tail(event_queue)
          /\ ~Head(event_queue).is_directory
          /\ \E r \in monitored_paths :
                /\ PrefixMatch(Head(event_queue).src_path, r)
                /\ posted' = posted \o [i \in 1..handlers[Head(event_queue).watch] |-> r]
      ]_vars

\* a file event was turned into a request for its root and a directory event
\* is waiting for the handler
C23_Witness ==
    /\ posted # << >>
    /\ posted[1] \in monitored_paths
    /\ event_queue # << >>
    /\ Head(event_queue).is_directory
    /\ handlers[Head(event_queue).watch] > 0

\* a step of the watcher thread
WatcherStep == Dispatch \/ \E e \in EventPaths : HandleEvent(e)

\* C24: a step of the watcher thread leaves _pending_refreshes, the timers
\* and the file cache as they are and emits neither directoryChanged; all it
\* does is queue refresh requests for the main loop.  So every change of a
\* timer, of _pending_refreshes or of the cache and every directoryChanged
\* belongs to a step of the main thread.
C24_ThreadConfinement ==
    [][WatcherStep =>
          /\ UNCHANGED <<timers, _pending_refreshes, _file_cache, monitored_paths>>
          /\ wd_signal' = None
          /\ dm_signal' = None
          /\ \E n \in 0..MaxPosted :
                \E r \in monitored_paths \cup {P_ab} :
                    posted' = posted \o [i \in 1..n |-> r]]_vars

\* the watcher thread has queued a request and no timer exists for it yet
C24_Witness ==
    /\ posted # << >>
    /\ _pending_refreshes = << >>
    /\ \A i \in TimerIds : timers[i] = NoTimer

\* C25: when the public directoryChanged follows a watcher-driven reload,
\* every drawer path given to start_monitor that names the reloaded root is
\* the path the signal carries, and get_file_list of that drawer path reads
\* the list the reload has just stored.
C25_KeyConsistency ==
    dm_signal # None =>
        \A i \in DOMAIN _drawers_data :
            NormRoot(_drawers_data[i]) = NormRoot(dm_signal[1]) =>
                /\ dm_signal[1] = _drawers_data[i]
                /\ result # None
                /\ get_file_list(_drawers_data[i]) = result[1].value

\* C26: a list a caller was given by get_file_list or reload_drawer_content
\* keeps exactly the entries it had when it was returned, whatever is
\* reloaded later; a reload of its key stores another list object in the
\* cache entry and leaves the caller's list as it is.
C26_SnapshotsImmutable ==
    /\ [](view.held # None => view.held[1].value = view.held[1].seen)
    /\ [][(/\ view.held # None
           /\ result' # None
           /\ result'[1].op = "reload"
           /\ result'[1].key = view.held[1].key)
          => /\ view'.held # None
             /\ ~view'.held[1].cached
             /\ view'.held[1].value = view.held[1].value
             /\ _file_cache'[view.held[1].key] = result'[1].value[1]]_vars

\* the caller holds a list its key's entry no longer equals
C26_Witness ==
    /\ view.held # None
    /\ ~view.held[1].cached
    /\ view.held[1].key \in DOMAIN _file_cache
    /\ _file_cache[view.held[1].key] # view.held[1].value
    /\ view.held[1].value # << >>

C28_DelaysBetweenAttempts ==
    (result # None /\ result[1].op = "reload" /\ result[1].attempts >= 1) =>
        result[1].delays = result[1].attempts - 1

\* C29: a rendering of a folder's file list submits exactly one icon-loading
\* task for each item it displays.
C29_OneTaskPerItem ==
    /\ Len(view.tasks) = Len(view.items)
    /\ \A i \in DOMAIN view.items :
          Cardinality({j \in DOMAIN view.tasks :
                          view.tasks[j].file_path = view.items[i]}) = 1

\* C30: after a start() whose observer.start() raised (the observer had been
\* stopped before, the exception is caught and start() returns with its
\* monitored_paths set) the engine is unmonitored: neither the watchdog
\* manager nor DataManager emits directoryChanged.
C30_DegradedUnmonitored ==
    (observer = "stopped" /\ monitored_paths # {} /\ main.pc # "start") =>
        /\ wd_signal = None
        /\ dm_signal = None

---------------------------------------------------------------------------
(* Properties of live synchronisation (SpecLiveFair).                      *)

\* the cache entry of root holds the directory's actual listing
CacheCurrent(root) ==
    /\ root \in DOMAIN _file_cache
    /\ _file_cache[root] = ListDir(root)

\* C31: while monitoring runs, when the children of the monitored root have
\* changed (a file or a sub-directory was created or deleted) and no further
\* change occurs, directoryChanged is eventually emitted for the root and
\* its cache entry equals the directory's listing.  Every change of SpecLive
\* happens while /a/b is monitored, and the directory starts as HasX.
C31_EventualConsistency ==
    /\ (fs[P_ab] = HasXY) ~> (fs[P_ab] # HasXY \/ CacheCurrent(P_ab))
    /\ (fs[P_ab] = IsEmpty) ~> (fs[P_ab] # IsEmpty \/ CacheCurrent(P_ab))

\* C32: with start() called again for the same root while the observer
\* runs, every file event under the root still leads to directoryChanged
\* for the root: an event waiting for the watcher thread yields a refresh
\* request, a request yields a pending timer, and a pending timer leads to
\* directoryChanged unless a later event of the root takes its place.
C32_RestartLosesNothing ==
    /\ (event_queue # << >> /\ ~Head(event_queue).is_directory)
          ~> (posted # << >>)
    /\ (posted # << >>) ~> (P_ab \in DOMAIN _pending_refreshes)
    /\ (P_ab \in DOMAIN _pending_refreshes)
          ~> (wd_signal = Some(P_ab) \/ event_queue # << >> \/ posted # << >>)

\* C33: whenever start() has returned with a valid directory among its
\* roots (and stop() was not called since), the underlying observer is
\* running, also when stop() had been called before that start().
C33_RestartAfterStop ==
    (main.pc = "idle" /\ monitored_paths # {}) => observer = "alive"

---------------------------------------------------------------------------
(* Properties of the lazy initialisation under concurrency (SpecLazy).     *)

\* C34: the body of _initialize_icon_components is never executed by two
\* threads at once, and no call that has passed the initialisation reads a
\* default-icon table that is cleared or only partly filled.
C34_LazyInitOnce ==
    /\ Cardinality({t \in WorkerIds : icon.workers[t] \in InitBody}) <= 1
    /\ (\E t \in WorkerIds : icon.workers[t] = "use") =>
          {KeyFolder, KeyFile, KeyUnknown} \subseteq DOMAIN icon.DEFAULT_ICONS

\* C35: after any sequence of handle_item_selected, handle_selection_cleared
\* and handle_content_close_requested the controller is locked exactly when
\* it holds the data of a locked item, and a handle_selection_cleared call
\* that emitted hideDrawerContent found the controller unlocked.
C35_LockInvariant ==
    /\ ctl._locked <=> ctl._locked_item_data # None
    /\ (ctl.call.op = "handle_selection_cleared" /\ ctl.signal # None) =>
           ~ctl._locked

\* handle_selection_cleared ran while a drawer was locked and emitted nothing
C35_Witness ==
    /\ ctl._locked
    /\ ctl._locked_item_data # None
    /\ ctl.call.op = "handle_selection_cleared"
    /\ ctl.signal = None

\* C36: when handle_item_selected emits showDrawerContent for a clicked
\* item, the emitted drawer data carries the path that was stored in the
\* item, and the item still stores that path afterwards.
C36_ShowsClickedDrawer ==
    (/\ ctl.call.op = "handle_item_selected"
     /\ ctl.signal # None
     /\ ctl.signal[1].sig = "showDrawerContent") =>
        /\ ctl.signal[1].data[1].path = ctl.call.path
        /\ ctl.items[ctl.call.row].path = ctl.call.path


\* the drawer list, the list view, the saved settings and the file cache
DrawerState == <<_drawers_data, ctl.items, ctl.saved, _file_cache>>

\* add_new_drawer returns without adding: cancelled, no directory, duplicate
Rejects(folder_path_str) ==
    \/ folder_path_str = << >>
    \/ ~IsDir(folder_path_str)
    \/ \E i \in DOMAIN _drawers_data : _drawers_data[i] = folder_path_str

\* a step of add_new_drawer
AddStep ==
    /\ main.pc = "idle"
    /\ fs' = fs
    /\ ctl'.call.op = "add_new_drawer"

\* one drawer is appended to the list and the view, and the loading of its
\* cache entry has begun
Appended(folder_path_str) ==
    /\ _drawers_data' = Append(_drawers_data, folder_path_str)
    /\ Len(ctl'.items) = Len(ctl.items) + 1
    /\ SubSeq(ctl'.items, 1, Len(ctl.items)) = ctl.items
    /\ ctl'.items[Len(ctl'.items)].path = folder_path_str
    /\ main'.pc = "reload"
    /\ main'.key = folder_path_str

\* C37: a call of add_new_drawer whose prompt is cancelled, whose path is no
\* directory or whose path is the path of an existing drawer leaves the
\* drawer list, the list view, the saved settings and the file cache as they
\* were; any other call appends exactly one drawer to the list and the view
\* and loads its cache entry, which is there when the reload returns; and no
\* two drawers have the same path string.
C37_AddAllOrNothing ==
    /\ [][AddStep =>
             IF Rejects(ctl'.call.path)
             THEN DrawerState' = DrawerState
             ELSE Appended(ctl'.call.path)]_vars
    /\ [][(main.pc = "reload" /\ main'.pc = "idle") =>
             main.key \in DOMAIN _file_cache']_vars
    /\ [](\A i, j \in DOMAIN _drawers_data :
             _drawers_data[i] = _drawers_data[j] => i = j)

\* a second drawer was added and loaded, and then adding the path of the
\* first drawer again was rejected
C37_Witness ==
    /\ ctl.call.op = "add_new_drawer"
    /\ Len(_drawers_data) = 2
    /\ ctl.call.path = _drawers_data[1]
    /\ _drawers_data[2] \in DOMAIN _file_cache
    /\ main.pc = "idle"


\* the settings file is missing, unreadable or invalid, or holds no
\* window_position
FallsBack(file) == file.kind # "valid" \/ file.settings.window_position = None

\* C38: load_settings never raises and always returns its 8-tuple; when the
\* settings file is missing, unreadable or invalid, or holds no
\* window_position, the tuple has a None window position and the default
\* background colour, start flag, icon paths and themes and thumbnail size.
C38_LoadFallsBack ==
    (result # None /\ result[1].op = "load_settings") =>
        /\ result[1].raised = ""
        /\ Len(result[1].value[1]) = Len(Returned)
        /\ FallsBack(fs[SETTINGS_FILE]) =>
              LET loaded == result[1].value[1]
              IN /\ loaded[2] = None
                 /\ loaded[3] = DEFAULT_BG_COLOR_HSLA
                 /\ loaded[4] = SettingsModel.start_with_windows
                 /\ loaded[5] = SettingsModel.default_icon_folder_path
                 /\ loaded[6] = SettingsModel.default_icon_file_theme
                 /\ loaded[7] = SettingsModel.default_icon_unknown_theme
                 /\ loaded[8] = SettingsModel.thumbnail_size


\* C39: a file event whose path lies inside a monitored root, the root of
\* the file system included, is matched by _handle_event to a monitored root
\* that contains it, and the call that matched it queues a refresh request
\* for that root.
C39_NoContainedEventDropped ==
    /\ [](handled # None =>
             LET h == handled[1]
                 e == NormRoot(h.path)
             IN (\E r \in h.roots : Within(e, r) /\ e # r) =>
                    /\ h.root # None
                    /\ h.root[1] \in h.roots
                    /\ Within(e, h.root[1]))
    /\ [][(handled' # handled /\ handled' # None /\ handled'[1].root # None) =>
             posted' = Append(posted, handled'[1].root[1])]_vars


====
